---- MODULE Spec2Model ----
(***************************************************************************)
(* Verification model of the agent execution core:                         *)
(*   - src/api/approvals.py + src/api/executor.py : the asynchronous       *)
(*     approval-ticket protocol behind POST /tool/call (SpecApi);          *)
(*   - src/core/agent_runner.py + src/core/opencode_runtime.py : the       *)
(*     bounded step loop with the synchronous approval gate (SpecRunner),  *)
(*     one call of _stream_chat chunk by chunk (SpecStream), its usage     *)
(*     (SpecUsage), the cancel flag over a turn (SpecCancel), the event    *)
(*     bus and its counters (SpecBus), the event log of one runtime        *)
(*     (SpecLog) and of two runtimes on one file (SpecLogRace);            *)
(*   - src/api/routers/chat.py : POST /chat/stream (SpecChat).             *)
(* Every specification leaves the variables of the other parts at their    *)
(* initial values.                                                         *)
(***************************************************************************)
EXTENDS Integers, Sequences, FiniteSets, TLC

(***************************************************************************)
(* Bounds of the model (not program constants).                            *)
(***************************************************************************)
\* number of call_tool activations in one run
MaxCalls == 3
\* number of clock advances in one run
MaxTicks == 1

\* calls of AgentRunner.handle_input in one run
MaxInputs == 2

\* deltas of one provider stream
MaxDeltas == 3

\* listeners registered on one OpencodeRuntime
MaxListeners == 2

\* turns and steps per turn driven through one OpencodeRuntime
MaxBusTurns == 2

MaxBusSteps == 2

\* events one OpencodeRuntime writes to the event log in one run
MaxLogWrites == 400

\* the same, for each of two runtimes that share the log file
MaxRaceWrites == 200

\* provider calls per turn where the turn is followed chunk by chunk
MaxCancelSteps == 2

\* requests to POST /chat/stream on the one session
MaxChatRequests == 2

(***************************************************************************)
(* Tool registry and risk set.                                             *)
(***************************************************************************)
\* core/config.py RISKY_TOOLS (two of its members are enough here)
RISKY_TOOLS == {"delete_file", "run_command"}

\* skills.available_functions: the registered callables
available_functions == {"delete_file", "run_command", "read_file"}

\* tool names a caller can send; "no_such_tool" is not registered
ToolNames == available_functions \cup {"no_such_tool"}

(***************************************************************************)
(* Argument dictionaries.  A value is a JSON scalar as Python holds it     *)
(* after parsing: its Python type and its numeric value (True is 1).       *)
(***************************************************************************)
IntV(n) == [t |-> "int", v |-> n]

BoolV(b) == [t |-> "bool", v |-> IF b THEN 1 ELSE 0]

\* delete_file(filepath, recursive=False): the keyword that varies here
ArgKeys == {"recursive"}

ArgVals == {IntV(1), BoolV(TRUE), IntV(2)}

\* every dict over ArgKeys, the empty dict included
ArgDicts == UNION {[D -> ArgVals] : D \in SUBSET ArgKeys}

EmptyArgs == [k \in {} |-> IntV(0)]

\* the argument dicts a client sends with each tool
ToolArgs(tool) == IF tool = "delete_file" THEN ArgDicts ELSE {EmptyArgs}

\* Python ==  on scalars: int/bool/float compare by numeric value
NumericTypes == {"int", "bool", "float"}

PyValEq(a, b) ==
    IF a.t \in NumericTypes /\ b.t \in NumericTypes THEN a.v = b.v ELSE a = b

\* Python ==  on dicts: same key set and pairwise == values; this is the
\* comparison  ticket.get("args", {}) != args  applies.
PyDictEqNever(d1, d2) == FALSE

PyDictEq(d1, d2) ==
    /\ DOMAIN d1 = DOMAIN d2
    /\ \A k \in DOMAIN d1 : PyValEq(d1[k], d2[k])

\* json.dumps of one scalar
JsonText(x) ==
    IF x.t = "bool" THEN (IF x.v = 1 THEN "true" ELSE "false")
    ELSE IF x.v = 0 THEN "0" ELSE IF x.v = 1 THEN "1" ELSE "2"

\* _preview_args: json.dumps(args, indent=2), kept as key -> rendered text
_preview_args(args) == [k \in DOMAIN args |-> JsonText(args[k])]

(***************************************************************************)
(* ApprovalStore.                                                          *)
(***************************************************************************)
ttl_seconds == 600

\* the clock advances in TTL strides, so a ticket is seen before,
\* exactly at and after its expiry time
ClockStride == ttl_seconds

\* Python None for a ticket
NoTicket == [tool |-> "", args |-> EmptyArgs, actor |-> "",
             created_at |-> -1, expires_at |-> -1]

Restrict(f, D) == [k \in D |-> f[k]]

\* _cleanup_locked: drop every entry with expires_at <= now
_cleanup_lockedLate(items, t) ==
    Restrict(items, {k \in DOMAIN items : ~(items[k].expires_at < t)})

_cleanup_lockedByCreation(items, t) ==
    Restrict(items, {k \in DOMAIN items : ~(items[k].created_at <= t)})

_cleanup_locked(items, t) ==
    Restrict(items, {k \in DOMAIN items : ~(items[k].expires_at <= t)})

\* ApprovalStore.create: cleanup, then insert under a fresh id
create(items, id, tool, args, actor, t) ==
    LET live == _cleanup_locked(items, t)
    IN  [k \in DOMAIN live \cup {id} |->
            IF k = id
            THEN [tool |-> tool, args |-> args, actor |-> actor,
                  created_at |-> t, expires_at |-> t + ttl_seconds]
            ELSE live[k]]

\* ApprovalStore.get: cleanup, then look up (the entry stays)
get(items, id, t) ==
    LET live == _cleanup_locked(items, t)
    IN  [items |-> live,
         ret |-> IF id \in DOMAIN live THEN live[id] ELSE NoTicket]

\* ApprovalStore.pop: cleanup, then remove and return the entry
popKeep(items, id, t) == get(items, id, t)

pop(items, id, t) ==
    LET live == _cleanup_locked(items, t)
    IN  [items |-> Restrict(live, DOMAIN live \ {id}),
         ret |-> IF id \in DOMAIN live THEN live[id] ELSE NoTicket]

(***************************************************************************)
(* ToolCallResponse values.                                                *)
(***************************************************************************)
ErrMissingId == "Missing approval_id for risky tool confirmation."

ErrNotFound == "Approval ticket not found or expired."

ErrToolMismatch == "Approval ticket tool mismatch."

ErrArgsMismatch == "Approval ticket args mismatch. Re-run dry-run to get a fresh ticket."

ErrToolNotFound == "Tool not found"

ErrToolRaised == "str(e)"

\* approval ids are 1, 2, ...; 0 stands for the empty string
NoId == 0

NoResp == [success |-> FALSE, status |-> "", error |-> "", result |-> "",
           approval_id |-> NoId, preview |-> << >>]

\* the handler threads of the server's pool that run call_tool
Handlers == {1, 2}

IdleReq == [pc |-> "idle", tool |-> "", args |-> EmptyArgs,
            dry_run |-> FALSE, confirm |-> FALSE, approval_id |-> NoId,
            actor |-> "", ticket |-> NoTicket, poppedAt |-> -1, late |-> FALSE,
            invoked |-> 0, resp |-> NoResp]

\* now     time.time()
\* ticks   clock advances so far
VARIABLE now
VARIABLE ticks
\* ApprovalStore._items : approval_id -> ticket
VARIABLE _items
\* uuid4 draws so far; the next id is nextId + 1
VARIABLE nextId
\* per HTTP handler thread: the call_tool activation it runs
VARIABLE req
\* call_tool activations so far
VARIABLE calls
\* history: ids whose ticket some pop has returned
VARIABLE popped
\* history: tool invocations authorised by each ticket id
VARIABLE execBy

apiVars == <<now, ticks, _items, nextId, req, calls, popped, execBy>>

(***************************************************************************)
(* AgentRunner (core/agent_runner.py) and its OpencodeRuntime.             *)
(***************************************************************************)
MAX_TOOL_RETRIES == 3

DEFAULT_MAX_STEPS == 15

BuildModes == {"fast", "balanced", "deep"}

BUILD_MODE_STEPS(mode) ==
    IF mode = "fast" THEN 8
    ELSE IF mode = "balanced" THEN DEFAULT_MAX_STEPS
    ELSE 24

\* AgentRunner.max_history_rounds as passed to the constructor (at least 1;
\* kept small so that a second turn already trims the history)
max_history_rounds == 1

\* the fixed rejection of _approve when nothing can approve
RejectNoApprover == "high-risk tool needs approval (use /approve on)"

\* the rejections ui.ask_for_approval returns
RejectByUser == "user rejected the operation"

\* what the attached approval callback answers: approve as is, reject, or
\* approve with manually edited arguments
Decisions == {"approve", "reject", "manual"}

NoCallback == "none"

\* the arguments the user types in manual edit mode
ManualArgs == [k \in ArgKeys |-> IntV(2)]

\* function.arguments texts the model streams, and json.loads of them
\* (_run_tool_calls lines 676-679: a JSONDecodeError gives {})
ArgTexts == {"{\"recursive\": true}", "{\"recursive\""}

json_loads(text) ==
    IF text = "{\"recursive\": true}" THEN [k \in ArgKeys |-> BoolV(TRUE)]
    ELSE EmptyArgs

\* the tool names the model asks for: risky, non-risky, unregistered
RunnerTools == {"delete_file", "read_file", "no_such_tool"}

\* the tool-call batches of one assistant message (names by index)
Batches == {<<"delete_file">>, <<"read_file">>, <<"no_such_tool">>,
            <<"delete_file", "read_file">>}

\* how a scripted turn ends: the provider answers with plain content, with an
\* empty stream, or fails
Endings == {"plain", "empty", "error"}

NoScript == [batch |-> << >>, arguments |-> "", fails |-> 0,
             decision |-> NoCallback, ending |-> "plain", end_at |-> 0]

SystemMsg == [role |-> "system", content |-> "system prompt",
              tool_calls |-> << >>, tool_call_id |-> <<0, 0>>, name |-> ""]

UserMsg(text) == [SystemMsg EXCEPT !.role = "user", !.content = text]

\* content None is the empty text (full_content or None)
AssistantMsg(content, tcs) ==
    [SystemMsg EXCEPT !.role = "assistant", !.content = content,
                      !.tool_calls = tcs]

ToolMsgAnonymous(id, name, content) ==
    [SystemMsg EXCEPT !.role = "tool", !.content = content]

ToolMsg(id, name, content) ==
    [SystemMsg EXCEPT !.role = "tool", !.content = content,
                      !.tool_call_id = id, !.name = name]

NoCall == [name |-> "", risky |-> FALSE, should_run |-> FALSE,
           args |-> EmptyArgs, attempts |-> 0, result |-> "",
           cancel_at_start |-> FALSE, cancel_at_end |-> FALSE]

NoResult == [kind |-> "", steps |-> 0]

\* AgentRunner.messages
VARIABLE messages
\* AgentRunner.build_mode
VARIABLE build_mode
\* OpencodeRuntime.max_steps
VARIABLE max_steps
\* AgentRunner.auto_approve_risky
VARIABLE auto_approve_risky
\* whether AgentRunner.approval_callback is attached
VARIABLE approval_callback
\* AgentRunner.cancel_requested
VARIABLE cancel_requested
\* position of handle_input: "idle", "setup" (the user message is recorded,
\* line 754 not yet reached), "loop", "stream" (inside _stream_chat),
\* "tools", "running", "exit"
VARIABLE pc
\* handle_input's local agent_steps
VARIABLE agent_steps
\* the tool calls of the current assistant message not yet dispatched
VARIABLE todo
\* this turn's environment: what the model asks for, how the callable and
\* the approver behave
VARIABLE script
\* history of the current turn: provider calls, agent.limit events, saves
VARIABLE turn
\* history: the latest dispatched tool call
VARIABLE lastCall
\* the value handle_input returned last
VARIABLE result
\* history: the calls of handle_input so far
VARIABLE inputs

runnerVars == <<messages, build_mode, max_steps, auto_approve_risky,
                approval_callback, cancel_requested, pc, agent_steps, todo,
                script, turn, lastCall, result, inputs>>

(***************************************************************************)
(* AgentRunner._stream_chat: the aggregation of one provider stream.       *)
(***************************************************************************)
\* a tool-call fragment of a delta; a missing id or name is the empty text
Fragment(index, id, name, arguments) ==
    [index |-> index, id |-> id, name |-> name, arguments |-> arguments]

FragIndexes == {0, 1}

\* the id and name a fragment carries: none (a continuation of a call), or
\* those of a call the provider opens
FragHeads == {<<"", "">>, <<"call", "f">>, <<"call2", "g">>}

\* the fragments a provider sends: tc.index, tc.id, tc.function.name and
\* tc.function.arguments, each of them possibly empty
Fragments ==
    {Fragment(i, h[1], h[2], a) :
        i \in FragIndexes, h \in FragHeads, a \in {"", "a", "b"}}

\* the usage dict of _stream_chat
Usage(prompt, completion, total) ==
    [prompt_tokens |-> prompt, completion_tokens |-> completion,
     total_tokens |-> total]

NoUsage == Usage(0, 0, 0)

\* a chunk of the stream: content text and tool-call fragments of its delta;
\* it carries no reasoning text and no usage (the empty sequence is None)
Delta(content, tool_calls) ==
    [content |-> content, tool_calls |-> tool_calls, reasoning |-> "",
     usage |-> << >>]

\* a chunk whose delta carries reasoning text
ReasoningDelta(text) == [Delta("", << >>) EXCEPT !.reasoning = text]

\* the chunk that reports the usage (it has no choices)
UsageChunk(u) == [Delta("", << >>) EXCEPT !.usage = <<u>>]

\* the chunks of a stream whose usage is looked at: text, reasoning, a tool
\* call, a usage report, and a report whose total is 0
UsageDeltas ==
    {Delta("c", << >>), Delta("ccc", << >>), ReasoningDelta("rr"),
     Delta("", <<Fragment(0, "call", "f", "a")>>),
     UsageChunk(Usage(7, 2, 9)), UsageChunk(Usage(5, 0, 0))}

Deltas ==
    {Delta("c", << >>)} \cup {Delta("", <<f>>) : f \in Fragments}
      \cup {Delta("", <<Fragment(1, "call", "f", "b"),
                        Fragment(0, "call", "f", "a")>>)}

NoFragments == [i \in {} |-> Fragment(0, "", "", "")]

NoReturn == [result_msg |-> SystemMsg, is_tool_call |-> FALSE,
             usage |-> NoUsage, canceled |-> FALSE]

\* the deltas iterated so far (history)
VARIABLE chunks
\* _stream_chat's local collected_tool_calls
VARIABLE collected_tool_calls
\* _stream_chat's local collected_content, joined
VARIABLE collected_content
\* _stream_chat's local is_tool_call
VARIABLE is_tool_call
\* position of _stream_chat: "iterating", "returned", "raised" (the
\* iteration raised), "recorded" (handle_input has passed the usage on),
\* "none" (no call of _stream_chat is open)
VARIABLE stream_pc
\* what _stream_chat returned
VARIABLE returned
\* _stream_chat's locals usage, reasoning_chars, first_content and
\* reasoning_open
VARIABLE usage
VARIABLE reasoning_chars
VARIABLE first_content
VARIABLE reasoning_open
\* history: the assistant.* events this call of _stream_chat has emitted
VARIABLE stream_events

streamVars == <<chunks, collected_tool_calls, collected_content,
                is_tool_call, stream_pc, returned, usage, reasoning_chars,
                first_content, reasoning_open, stream_events>>

\* _stream_chat before its for loop
StreamStart ==
    /\ chunks = << >>
    /\ collected_tool_calls = NoFragments
    /\ collected_content = ""
    /\ is_tool_call = FALSE
    /\ stream_pc = "iterating"
    /\ returned = NoReturn
    /\ usage = NoUsage
    /\ reasoning_chars = 0
    /\ first_content = TRUE
    /\ reasoning_open = FALSE
    /\ stream_events = << >>

(***************************************************************************)
(* core/opencode_runtime.py: OpencodeRuntime, its listeners and counters.  *)
(***************************************************************************)
\* how a registered listener handles an event
ListenerKinds == {"ok", "raises"}

NoStats == [turns |-> 0, steps |-> 0, tool_calls |-> 0, tool_failures |-> 0,
            prompt_tokens |-> 0, completion_tokens |-> 0, total_tokens |-> 0,
            total_cost_usd |-> 0]

NoEvent == [type |-> "", audience |-> 0, received |-> {}]

\* the usage figures handle_input passes to add_usage: prompt, completion
\* and total tokens and the cost (in whole units)
UsageInputs == {<<-1, -1, -1, -1>>, <<0, 0, 0, 0>>, <<2, 1, 0, 1>>,
                <<2, 1, 5, 0>>}

\* OpencodeRuntime._handlers
VARIABLE _handlers
\* OpencodeRuntime's counters (get_stats)
VARIABLE stats
\* history: the latest emitted event and the listeners that were handed it
VARIABLE last_event
\* the turn that drives the runtime: position, local agent_steps, whether an
\* exception left handle_input
VARIABLE bus

busVars == <<_handlers, stats, last_event, bus>>

BusIdle == [pc |-> "idle", agent_steps |-> 0, tools |-> 0, aborted |-> FALSE]

\* OpencodeRuntime.__init__
BusStart ==
    /\ _handlers = << >>
    /\ stats = NoStats
    /\ last_event = NoEvent
    /\ bus = BusIdle

(***************************************************************************)
(* core/opencode_runtime.py: the persisted event log (_append_log,         *)
(* _maybe_rotate_log) as the runtimes of separate AgentRunners write it.   *)
(***************************************************************************)
\* _append_log line 73: the size is looked at on every 200th write
LOG_CHECK_EVERY == 200

\* the OpencodeRuntime instances that write data/runtime_events.jsonl
Emitters == {1, 2}

\* the file at log_path: how many files have been created at that path, the
\* records in the present one (none: no file; 2 stands for two or more) and
\* whether its size is above _log_rotate_bytes
LogFile(gen, records, big) == [gen |-> gen, records |-> records, big |-> big]

\* what one emit did: whether the size check was due, whether it renamed the
\* file, whether its record was appended, whether a file operation raised
NoLast == [due |-> FALSE, rotated |-> FALSE, appended |-> FALSE,
           raised |-> FALSE]

\* OpencodeRuntime._log_write_count, per runtime
VARIABLE _log_write_count
\* position of each runtime inside emit: "idle", "rename", "append"
VARIABLE log_pc
\* the file at log_path
VARIABLE log_file
\* history: what the latest emit of each runtime did
VARIABLE log_last
\* history: size checks and events handed to the listeners per runtime,
\* renames of the log file, times a file grew above the threshold
VARIABLE log_history

logVars == <<_log_write_count, log_pc, log_file, log_last, log_history>>

\* two runtimes constructed (each has written its runtime.started event) on
\* a log file left by earlier sessions
LogConstructed(big) ==
    /\ _log_write_count = [e \in Emitters |-> 1]
    /\ log_pc = [e \in Emitters |-> "idle"]
    /\ log_file = LogFile(1, 2, big)
    /\ log_last = [e \in Emitters |-> NoLast]
    /\ log_history = [checks |-> [e \in Emitters |-> 0],
                      delivered |-> [e \in Emitters |-> 1],
                      rotations |-> 0,
                      crossings |-> IF big THEN 1 ELSE 0]

LogIdle == LogConstructed(FALSE)

(***************************************************************************)
(* api/routers/chat.py: POST /chat/stream on one session.                  *)
(***************************************************************************)
\* max_steps of chat_stream's generator (line 102)
CHAT_MAX_STEPS == 15

MAX_HISTORY_MESSAGES == 60

\* what the provider does during one request: the tool calls it asks for at
\* every step before step end_at, whether the callables raise, and what
\* happens at step end_at: a plain answer, create raising ("error"), or
\* the stream breaking while it is iterated ("broken")
ChatEndings == {"plain", "error", "broken"}

ChatScript(batch, arguments, raises, ending, end_at) ==
    [batch |-> batch, arguments |-> arguments, raises |-> raises,
     ending |-> ending, end_at |-> end_at]

NoChatScript == ChatScript(<< >>, "", FALSE, "plain", 0)

\* the events of one request (history)
NoSse == [approval_required |-> {}, tool_start |-> {}, tool_result |-> {},
          done |-> 0, error |-> {}, provider_calls |-> 0]

\* _sessions[session_id]
VARIABLE session_messages
\* the generator of chat_stream: its position ("idle", "loop", "tools"), its
\* local step, req.auto_approve, the tool calls of tool_calls_list not yet
\* handled, the provider's script and the number of the request
VARIABLE generate
\* history: the events the current request has yielded
VARIABLE sse

chatVars == <<session_messages, generate, sse>>

NoGenerate == [pc |-> "idle", step |-> 0, auto_approve |-> FALSE,
               todo |-> << >>, script |-> NoChatScript, request |-> 0]

\* _get_session for a new session id (lines 55-60), no request yet
ChatIdle ==
    /\ session_messages = <<SystemMsg>>
    /\ generate = NoGenerate
    /\ sse = NoSse

\* everything outside the request handlers of src/api
offApi == <<runnerVars, streamVars, busVars, logVars, chatVars>>

\* everything outside the AgentRunner's turn state
offRunner == <<apiVars, streamVars, busVars, logVars, chatVars>>

vars == <<apiVars, runnerVars, streamVars, busVars, logVars, chatVars>>

\* the system messages handle_input itself emits: after a provider failure
\* (line 779) and after an observed cancellation (line 775)
ApiFailed == "API call failed: api_err"

GenerationCancelled == "current generation cancelled"

\* cleared: what the calls of _clear_cancel in this turn found in the flag
\* (recorded where the turn's setup is followed statement by statement)
NoTurn == [provider_calls |-> 0, limit_events |-> 0, saves |-> 0,
           invoked |-> 0, notices |-> {}, cleared |-> << >>]

\* AgentRunner.__init__ with the given construction arguments
Constructed(mode, callback, auto) ==
    /\ messages = <<SystemMsg>>
    /\ build_mode = mode
    /\ max_steps = BUILD_MODE_STEPS(mode)
    /\ auto_approve_risky = auto
    /\ approval_callback = callback
    /\ cancel_requested = FALSE
    /\ pc = "idle"
    /\ agent_steps = 0
    /\ todo = << >>
    /\ script = NoScript
    /\ turn = NoTurn
    /\ lastCall = NoCall
    /\ result = NoResult
    /\ inputs = 0

\* the API server runs no AgentRunner
RunnerIdle == Constructed("balanced", FALSE, FALSE)

(***************************************************************************)
(* src/api: initial state and the steps of call_tool.                      *)
(***************************************************************************)
InitApi ==
    /\ now = 0
    /\ ticks = 0
    /\ _items = [k \in {} |-> NoTicket]
    /\ nextId = 0
    /\ req = [h \in Handlers |-> IdleReq]
    /\ calls = 0
    /\ popped = {}
    /\ execBy = [k \in {} |-> 0]
    /\ RunnerIdle
    /\ StreamStart
    /\ BusStart
    /\ LogIdle
    /\ ChatIdle

ErrorResp(msg) == [NoResp EXCEPT !.status = "error", !.error = msg]

OkResp == [NoResp EXCEPT !.success = TRUE, !.status = "ok", !.result = "str(result)"]

\* the result of  available_functions[tool](**args)  inside try/except
\* (call_tool lines 97-113): status ok, or status error with str(e)
Invoke(r, raises) ==
    [r EXCEPT !.pc = "done", !.invoked = r.invoked + 1,
              !.resp = IF raises THEN ErrorResp(ErrToolRaised) ELSE OkResp]

\* call_tool line 44
is_riskyAll(tool) == TRUE

is_risky(tool) == tool \in RISKY_TOOLS

\* call_tool line 50: the call is a preview, not a confirmation
is_previewUnlessConfirm(dry_run, confirm) == ~confirm

is_preview(dry_run, confirm) == dry_run \/ ~confirm

\* whether the callable raises; only a non-risky registered tool is invoked
\* inside CallTool itself
Outcomes(tool) ==
    IF tool \in available_functions \ RISKY_TOOLS THEN BOOLEAN ELSE {FALSE}

\* handler threads are interchangeable: a request goes to the first idle one
FirstIdle(h) == \A g \in Handlers : g < h => req[g].pc # "idle"

\* a finished activation returns its response before the model looks at the
\* next step (returning touches nothing shared)
NoneDone == \A h \in Handlers : req[h].pc # "done"

\* time passes between and during requests (the clock starts with the first
\* ticket: only differences of times are ever compared)
Tick ==
    /\ NoneDone
    /\ nextId > 0
    /\ ticks < MaxTicks
    /\ ticks' = ticks + 1
    /\ now' = now + ClockStride
    /\ UNCHANGED <<_items, nextId, req, calls, popped, execBy, offApi>>

\* call_tool, lines 33-70 (and 97-113 for a non-risky tool): registry check,
\* risk check, preview (ticket creation) and the missing-id check.  A confirm
\* call stops before line 71 (pc "pop").
CallTool(h, tool, args, dry_run, confirm, approval_id, raises) ==
    /\ NoneDone
    /\ req[h].pc = "idle"
    /\ FirstIdle(h)
    /\ calls < MaxCalls
    /\ calls' = calls + 1
    /\ LET r == [IdleReq EXCEPT !.tool = tool, !.args = args,
                    !.dry_run = dry_run, !.confirm = confirm,
                    !.approval_id = approval_id, !.actor = "ui"]
       IN
       IF tool \notin available_functions
       THEN /\ req' = [req EXCEPT ![h] = [r EXCEPT !.pc = "done",
                                  !.resp = ErrorResp(ErrToolNotFound)]]
            /\ UNCHANGED <<_items, nextId, popped, execBy>>
       ELSE IF ~is_risky(tool)
       THEN /\ req' = [req EXCEPT ![h] = Invoke(r, raises)]
            /\ UNCHANGED <<_items, nextId, popped, execBy>>
       ELSE IF is_preview(dry_run, confirm)
       THEN /\ LET id == nextId + 1
                   store == create(_items, id, tool, args, r.actor, now)
               IN /\ _items' = store
                  /\ nextId' = id
                  /\ UNCHANGED popped
                  /\ execBy' = [k \in DOMAIN execBy \cup {id} |->
                                   IF k = id THEN 0 ELSE execBy[k]]
                  /\ req' = [req EXCEPT ![h] = [r EXCEPT !.pc = "done",
                         !.resp = [NoResp EXCEPT
                             !.status = "needs_approval",
                             !.approval_id = id,
                             !.preview = <<_preview_args(args)>>,
                             !.result = "Approval required before execution."]]]
       ELSE IF approval_id = NoId
       THEN /\ req' = [req EXCEPT ![h] = [r EXCEPT !.pc = "done",
                                  !.resp = ErrorResp(ErrMissingId)]]
            /\ UNCHANGED <<_items, nextId, popped, execBy>>
       ELSE /\ req' = [req EXCEPT ![h] = [r EXCEPT !.pc = "pop"]]
            /\ UNCHANGED <<_items, nextId, popped, execBy>>
    /\ UNCHANGED <<now, ticks, offApi>>

\* call_tool, lines 71-95: pop the ticket under the store lock, then compare
\* it with the call (the comparison only reads the handler's own locals)
ConfirmPop(h) ==
    /\ NoneDone
    /\ req[h].pc = "pop"
    /\ LET r == req[h]
           p == pop(_items, r.approval_id, now)
           t == p.ret
           r1 == [r EXCEPT !.ticket = t, !.poppedAt = now,
                           !.late = (r.approval_id \in popped)]
       IN /\ _items' = p.items
          /\ popped' = IF t = NoTicket THEN popped
                       ELSE popped \cup {r.approval_id}
          /\ req' = [req EXCEPT ![h] =
                IF t = NoTicket
                THEN [r1 EXCEPT !.pc = "done", !.resp = ErrorResp(ErrNotFound)]
                ELSE IF t.tool # r.tool
                THEN [r1 EXCEPT !.pc = "done", !.resp = ErrorResp(ErrToolMismatch)]
                ELSE IF ~PyDictEq(t.args, r.args)
                THEN [r1 EXCEPT !.pc = "done", !.resp = ErrorResp(ErrArgsMismatch)]
                ELSE [r1 EXCEPT !.pc = "exec"]]
    /\ UNCHANGED <<now, ticks, nextId, calls, execBy, offApi>>

\* call_tool, lines 97-113 after a matching ticket: invoke the callable
Execute(h, raises) ==
    /\ NoneDone
    /\ req[h].pc = "exec"
    /\ req' = [req EXCEPT ![h] = Invoke(req[h], raises)]
    /\ execBy' = [execBy EXCEPT ![req[h].approval_id] = @ + 1]
    /\ UNCHANGED <<now, ticks, _items, nextId, calls, popped, offApi>>

\* the response is sent; the handler thread is free for the next request
Respond(h) ==
    /\ req[h].pc = "done"
    /\ req' = [req EXCEPT ![h] = IdleReq]
    /\ UNCHANGED <<now, ticks, _items, nextId, calls, popped, execBy, offApi>>

\* ApprovalStore.get
Lookup(id) ==
    /\ NoneDone
    /\ LET g == get(_items, id, now)
       IN _items' = g.items
    /\ UNCHANGED <<now, ticks, nextId, req, calls, popped, execBy, offApi>>

NextApi ==
    \/ Tick
    \/ \E h \in Handlers, tool \in ToolNames :
        \E args \in ToolArgs(tool), dry_run \in BOOLEAN, confirm \in BOOLEAN,
           approval_id \in 0..nextId, raises \in Outcomes(tool) :
            CallTool(h, tool, args, dry_run, confirm, approval_id, raises)
    \/ \E h \in Handlers : ConfirmPop(h)
    \/ \E h \in Handlers, raises \in BOOLEAN : Execute(h, raises)
    \/ \E h \in Handlers : Respond(h)
    \/ \E id \in 1..nextId : Lookup(id)

SpecApi == InitApi /\ [][NextApi]_vars

(***************************************************************************)
(* core/agent_runner.py: approval, tool dispatch and the turn loop.        *)
(* handle_input is called by one thread at a time (the loop of engine.py); *)
(* request_cancel may come from another thread at any moment.  A provider  *)
(* call is one call of _stream_chat, made once per iteration of the loop.  *)
(***************************************************************************)
Triple(should_run, reject_reason, new_args) ==
    [should_run |-> should_run, reject_reason |-> reject_reason,
     new_args |-> new_args]

\* ui.ask_for_approval, by what the user decides
ask_for_approval(func_name, args, decision) ==
    IF decision = "approve" THEN Triple(TRUE, "", <<args>>)
    ELSE IF decision = "manual" THEN Triple(TRUE, "", <<ManualArgs>>)
    ELSE Triple(FALSE, RejectByUser, << >>)

_approveAlways(func_name, args, auto, callback, decision) ==
    Triple(TRUE, "", <<args>>)

\* AgentRunner._approve; None is the empty sequence
_approve(func_name, args, auto, callback, decision) ==
    IF func_name \notin RISKY_TOOLS THEN Triple(TRUE, "", <<args>>)
    ELSE IF auto THEN Triple(TRUE, "", <<args>>)
    ELSE IF callback THEN ask_for_approval(func_name, args, decision)
    ELSE Triple(FALSE, RejectNoApprover, << >>)

ToolOutput(func_name) == "result of " \o func_name

RetryError == "Error (retried): e"

ToolMissing(func_name) == "Error: Tool " \o func_name \o " not found"

\* the retry loop of _run_tool_calls: the callable raises on its first
\* `fails` invocations; gives the result and the number of invocations
RECURSIVE RetryLoop(_, _, _)
RetryLoopGivesUpEarly(func_name, retries, fails) ==
    IF fails = 0
    THEN [result |-> ToolOutput(func_name), attempts |-> 1]
    ELSE [result |-> RetryError, attempts |-> 1]

RetryLoop(func_name, retries, fails) ==
    IF retries < MAX_TOOL_RETRIES
    THEN IF retries + 1 > fails
         THEN [result |-> ToolOutput(func_name), attempts |-> retries + 1]
         ELSE IF retries + 1 >= MAX_TOOL_RETRIES
              THEN [result |-> RetryError, attempts |-> retries + 1]
              ELSE RetryLoop(func_name, retries + 1, fails)
    ELSE [result |-> "None", attempts |-> retries]

DispatchStopsOnCancel(tc, auto, callback, scr) ==
    LET a == _approve(tc.name, json_loads(tc.arguments), auto, callback,
                      scr.decision)
        run == IF cancel_requested THEN [result |-> "None", attempts |-> 0]
               ELSE RetryLoop(tc.name, 0, scr.fails)
    IN  [name |-> tc.name, risky |-> tc.name \in RISKY_TOOLS,
         should_run |-> a.should_run, args |-> json_loads(tc.arguments),
         attempts |-> IF a.should_run /\ tc.name \in available_functions
                      THEN run.attempts ELSE 0,
         result |-> IF ~a.should_run THEN a.reject_reason
                    ELSE IF tc.name \in available_functions THEN run.result
                    ELSE ToolMissing(tc.name),
         cancel_at_start |-> FALSE, cancel_at_end |-> FALSE]

DispatchRetriesUnknown(tc, auto, callback, scr) ==
    LET a == _approve(tc.name, json_loads(tc.arguments), auto, callback,
                      scr.decision)
        run == RetryLoop(tc.name, 0, MAX_TOOL_RETRIES)
    IN  [name |-> tc.name, risky |-> tc.name \in RISKY_TOOLS,
         should_run |-> a.should_run, args |-> json_loads(tc.arguments),
         attempts |-> IF a.should_run THEN run.attempts ELSE 0,
         result |-> IF ~a.should_run THEN a.reject_reason ELSE run.result,
         cancel_at_start |-> FALSE, cancel_at_end |-> FALSE]

\* one iteration of the for loop of _run_tool_calls
Dispatch(tc, auto, callback, scr) ==
    LET args0 == json_loads(tc.arguments)
        a == _approve(tc.name, args0, auto, callback, scr.decision)
        args == IF a.should_run /\ a.new_args # << >>
                   /\ a.new_args[1] # EmptyArgs
                THEN a.new_args[1] ELSE args0
        run == RetryLoop(tc.name, 0, scr.fails)
    IN  [name |-> tc.name, risky |-> tc.name \in RISKY_TOOLS,
         should_run |-> a.should_run, args |-> args,
         attempts |-> IF a.should_run /\ tc.name \in available_functions
                      THEN run.attempts ELSE 0,
         result |-> IF ~a.should_run THEN a.reject_reason
                    ELSE IF tc.name \in available_functions THEN run.result
                    ELSE ToolMissing(tc.name),
         cancel_at_start |-> FALSE, cancel_at_end |-> FALSE]

_trim_messages(msgs) ==
    LET max_messages == max_history_rounds * 2 + 1
    IN  IF Len(msgs) > max_messages
        THEN <<msgs[1]>> \o SubSeq(msgs, Len(msgs) - (max_messages - 1) + 1,
                                  Len(msgs))
        ELSE msgs

\* the scripts of a turn.  A turn that goes on past its second step asks
\* for one plain tool; a turn on a session that already holds a turn is short.
Script(batch, arguments, fails, decision, ending, end_at) ==
    [batch |-> batch, arguments |-> arguments, fails |-> fails,
     decision |-> decision, ending |-> ending, end_at |-> end_at]

ShortScripts(auto, callback) ==
    {Script(b, a, f, d, e, n) :
        b \in Batches, a \in ArgTexts, f \in 0..MAX_TOOL_RETRIES,
        d \in IF callback /\ ~auto THEN Decisions ELSE {NoCallback},
        e \in Endings, n \in {1, 2}}

LongScripts(limit) ==
    {Script(<<"read_file">>, "{\"recursive\"", 0, NoCallback, e, n) :
        e \in Endings, n \in {0, limit}}

\* handle_input with a slash command: /build <mode>
SlashBuild(mode) ==
    /\ pc = "idle"
    /\ inputs < MaxInputs
    /\ inputs' = inputs + 1
    /\ build_mode' = mode
    /\ max_steps' = BUILD_MODE_STEPS(mode)
    /\ turn' = [turn EXCEPT !.saves = @ + 1]
    /\ result' = [kind |-> "command", steps |-> 0]
    /\ UNCHANGED <<offRunner, messages, auto_approve_risky, approval_callback,
                   cancel_requested, pc, agent_steps, todo, script, lastCall>>

\* handle_input with a slash command: /approve on|off
SlashApprove(flag) ==
    /\ pc = "idle"
    /\ inputs < MaxInputs
    /\ inputs' = inputs + 1
    /\ auto_approve_risky' = flag
    /\ result' = [kind |-> "command", steps |-> 0]
    /\ UNCHANGED <<offRunner, messages, build_mode, max_steps,
                   approval_callback, cancel_requested, pc, agent_steps, todo,
                   script, turn, lastCall>>

_clear_cancelKeeps == cancel_requested

\* _clear_cancel, lines 331-332: the value the flag gets
_clear_cancel == FALSE

\* handle_input with a user text, up to the loop
HandleInput(scr) ==
    /\ pc = "idle"
    /\ inputs < MaxInputs
    /\ inputs' = inputs + 1
    /\ messages' = _trim_messages(Append(messages, UserMsg("text")))
    /\ agent_steps' = 0
    /\ cancel_requested' = _clear_cancel
    /\ script' = scr
    /\ turn' = NoTurn
    /\ lastCall' = NoCall
    /\ result' = NoResult
    /\ todo' = << >>
    /\ pc' = "loop"
    /\ UNCHANGED <<offRunner, build_mode, max_steps, auto_approve_risky,
                   approval_callback>>

OutcomeIgnoresCancel(n) ==
    IF n = script.end_at THEN script.ending ELSE "tools"

OutcomeSwallowsError(n) ==
    IF n = script.end_at /\ script.ending # "error" THEN script.ending
    ELSE "tools"

\* what the provider's stream gives at step n of the turn
Outcome(n) ==
    LET scripted == IF n = script.end_at THEN script.ending ELSE "tools"
    IN  IF cancel_requested /\ scripted \in {"tools", "plain"}
        THEN "canceled" ELSE scripted

ToolCalls(n) ==
    [i \in 1..Len(script.batch) |->
        [id |-> <<n, i>>, name |-> script.batch[i],
         arguments |-> script.arguments]]

LoopConditionOffByOne == agent_steps <= max_steps

\* while agent_steps < self.runtime.max_steps
LoopCondition == agent_steps < max_steps

\* one iteration of the while loop, up to the call of _run_tool_calls
Step ==
    /\ pc = "loop"
    /\ LoopCondition
    /\ agent_steps' = agent_steps + 1
    /\ LET o == Outcome(agent_steps + 1) IN
        /\ turn' = [turn EXCEPT
                      !.provider_calls = @ + 1,
                      !.notices = CASE o = "error" -> @ \cup {ApiFailed}
                                    [] o = "canceled" ->
                                          @ \cup {GenerationCancelled}
                                    [] OTHER -> @]
        /\ messages' =
            CASE o = "tools" ->
                    Append(messages, AssistantMsg("", ToolCalls(agent_steps + 1)))
              [] o = "plain" -> Append(messages, AssistantMsg("answer", << >>))
              [] o = "empty" -> Append(messages, AssistantMsg("", << >>))
              [] OTHER -> messages
        /\ todo' = IF o = "tools" THEN ToolCalls(agent_steps + 1) ELSE << >>
        /\ pc' = IF o = "tools" THEN "tools" ELSE "exit"
    /\ UNCHANGED <<offRunner, build_mode, max_steps, auto_approve_risky,
                   approval_callback, cancel_requested, script, lastCall,
                   result, inputs>>

\* _run_tool_calls: the for loop takes the next tool call of the assistant
\* message (lines 674-681)
StartToolCall ==
    /\ pc = "tools"
    /\ todo # << >>
    /\ pc' = "running"
    /\ lastCall' = [NoCall EXCEPT !.name = Head(todo).name,
                                  !.cancel_at_start = cancel_requested]
    /\ UNCHANGED <<offRunner, messages, build_mode, max_steps,
                   auto_approve_risky, approval_callback, cancel_requested,
                   agent_steps, todo, script, turn, result, inputs>>

\* _run_tool_calls: approval, execution and the tool message of the call
\* taken (lines 682-732)
RunToolCall ==
    /\ pc = "running"
    /\ todo # << >>
    /\ LET tc == Head(todo)
           d == Dispatch(tc, auto_approve_risky, approval_callback, script)
       IN  /\ lastCall' = [d EXCEPT
                              !.cancel_at_start = lastCall.cancel_at_start,
                              !.cancel_at_end = cancel_requested]
           /\ turn' = [turn EXCEPT !.invoked = @ + d.attempts]
           /\ messages' = Append(messages, ToolMsg(tc.id, tc.name, d.result))
    /\ todo' = Tail(todo)
    /\ pc' = IF Tail(todo) = << >> THEN "loop" ELSE "tools"
    /\ UNCHANGED <<offRunner, build_mode, max_steps, auto_approve_risky,
                   approval_callback, cancel_requested, agent_steps, script,
                   result, inputs>>

FinishWithoutSave ==
    /\ \/ pc = "exit"
       \/ pc = "loop" /\ ~LoopCondition
    /\ turn' = [turn EXCEPT
                  !.limit_events = IF agent_steps >= max_steps THEN @ + 1 ELSE @]
    /\ result' = [kind |-> "turn_done", steps |-> agent_steps]
    /\ pc' = "idle"
    /\ UNCHANGED <<offRunner, messages, build_mode, max_steps,
                   auto_approve_risky, approval_callback, cancel_requested,
                   agent_steps, todo, script, lastCall, inputs>>

\* the end of handle_input: after a break or when the while condition fails
Finish ==
    /\ \/ pc = "exit"
       \/ pc = "loop" /\ ~LoopCondition
    /\ turn' = [turn EXCEPT
                  !.limit_events = IF agent_steps >= max_steps THEN @ + 1 ELSE @,
                  !.saves = @ + 1]
    /\ result' = [kind |-> "turn_done", steps |-> agent_steps]
    /\ pc' = "idle"
    /\ UNCHANGED <<offRunner, messages, build_mode, max_steps,
                   auto_approve_risky, approval_callback, cancel_requested,
                   agent_steps, todo, script, lastCall, inputs>>

\* AgentRunner.request_cancel, from the user interface's thread
RequestCancel ==
    /\ ~cancel_requested
    /\ cancel_requested' = TRUE
    /\ UNCHANGED <<offRunner, messages, build_mode, max_steps,
                   auto_approve_risky, approval_callback, pc, agent_steps,
                   todo, script, turn, lastCall, result, inputs>>

\* engine.py attaches ui.ask_for_approval, tui_app.py switches auto-approval
\* on, a bare AgentRunner() has neither
InitRunner ==
    /\ now = 0
    /\ ticks = 0
    /\ _items = [k \in {} |-> NoTicket]
    /\ nextId = 0
    /\ req = [h \in Handlers |-> IdleReq]
    /\ calls = 0
    /\ popped = {}
    /\ execBy = [k \in {} |-> 0]
    /\ \E cfg \in {<<TRUE, FALSE>>, <<FALSE, TRUE>>, <<FALSE, FALSE>>} :
        Constructed("balanced", cfg[1], cfg[2])
    /\ StreamStart
    /\ BusStart
    /\ LogIdle
    /\ ChatIdle

NextRunner ==
    \/ \E mode \in BuildModes : SlashBuild(mode)
    \/ \E flag \in BOOLEAN : SlashApprove(flag)
    \/ \E scr \in IF Len(messages) = 1
                  THEN ShortScripts(auto_approve_risky, approval_callback)
                         \cup LongScripts(max_steps)
                  ELSE LongScripts(1) : HandleInput(scr)
    \/ Step
    \/ StartToolCall
    \/ RunToolCall
    \/ Finish
    \/ RequestCancel

SpecRunner == InitRunner /\ [][NextRunner]_vars

(***************************************************************************)
(* AgentRunner._stream_chat, lines 572-660.                                *)
(***************************************************************************)
MergeKeepLast(collected, tc) ==
    [i \in DOMAIN collected \cup {tc.index} |->
        IF i = tc.index
        THEN [id |-> tc.id, name |-> tc.name, arguments |-> tc.arguments]
        ELSE collected[i]]

\* lines 620-633: one fragment into collected_tool_calls
Merge(collected, tc) ==
    LET idx == tc.index
        base == IF idx \in DOMAIN collected THEN collected[idx]
                ELSE [id |-> tc.id, name |-> tc.name, arguments |-> ""]
        entry == [id |-> IF tc.id # "" THEN tc.id ELSE base.id,
                  name |-> IF tc.name # "" THEN tc.name ELSE base.name,
                  arguments |-> base.arguments \o tc.arguments]
    IN  [i \in DOMAIN collected \cup {idx} |->
            IF i = idx THEN entry ELSE collected[i]]

\* for tc in delta.tool_calls
RECURSIVE MergeAll(_, _)
MergeAll(collected, tcs) ==
    IF tcs = << >> THEN collected
    ELSE MergeAll(Merge(collected, Head(tcs)), Tail(tcs))

\* sorted(collected_tool_calls.items(), key=index): the keys in ascending order
RECURSIVE SortedKeys(_)
SortedKeys(S) ==
    IF S = {} THEN << >>
    ELSE LET m == CHOOSE x \in S : \A y \in S : x <= y
         IN  <<m>> \o SortedKeys(S \ {m})

\* lines 637-660: the message built from what was collected
ResultMsg(content, collected) ==
    LET keys == SortedKeys(DOMAIN collected)
    IN  AssistantMsg(content,
            [k \in 1..Len(keys) |->
                [id |-> collected[keys[k]].id,
                 name |-> collected[keys[k]].name,
                 arguments |-> collected[keys[k]].arguments]])

\* _estimate_tokens, lines 208-211
_estimate_tokensFloor(chars) == IF chars <= 0 THEN 0 ELSE chars \div 2

_estimate_tokens(chars) ==
    IF chars <= 0 THEN 0
    ELSE IF chars \div 2 > 1 THEN chars \div 2 ELSE 1

\* line 643: the characters of the contents of self.messages
RECURSIVE prompt_chars(_)
prompt_chars(msgs) ==
    IF msgs = << >> THEN 0
    ELSE Len(Head(msgs).content) + prompt_chars(Tail(msgs))

\* lines 642-647: the usage _stream_chat returns
FinalUsage(u, msgs, full_content, r_chars) ==
    IF u.total_tokens <= 0
    THEN LET prompt == _estimate_tokens(prompt_chars(msgs))
             completion == _estimate_tokens(Len(full_content) + r_chars)
         IN  Usage(prompt, completion, prompt + completion)
    ELSE u

\* lines 587-618: the assistant events of one chunk, and first_content and
\* reasoning_open after it
ChunkEffects(delta, first, open) ==
    LET r == delta.reasoning # ""
        c == delta.content # ""
        t == delta.tool_calls # << >>
        ev1 == IF r
               THEN (IF ~open THEN <<"assistant.reasoning.start">> ELSE << >>)
                      \o <<"assistant.reasoning.token">>
               ELSE << >>
        open1 == open \/ r
        ev2 == IF c
               THEN (IF open1 THEN <<"assistant.reasoning.end">> ELSE << >>)
                      \o (IF first THEN <<"assistant.stream.start">> ELSE << >>)
                      \o <<"assistant.stream.token">>
               ELSE << >>
        open2 == open1 /\ ~c
        first2 == first /\ ~c
        ev3 == IF t /\ open2 THEN <<"assistant.reasoning.end">> ELSE << >>
    IN  [events |-> ev1 \o ev2 \o ev3,
         first_content |-> first2 /\ ~t,
         reasoning_open |-> open2 /\ ~t]

\* lines 635-660: what follows the for loop
Return(canceled) ==
    /\ stream_pc' = "returned"
    /\ returned' = [result_msg |->
                        ResultMsg(collected_content, collected_tool_calls),
                    is_tool_call |-> is_tool_call,
                    usage |-> FinalUsage(usage, messages, collected_content,
                                         reasoning_chars),
                    canceled |-> canceled]
    /\ stream_events' =
          stream_events
            \o (IF reasoning_open THEN <<"assistant.reasoning.end">> ELSE << >>)
            \o (IF collected_content # "" THEN <<"assistant.stream.end">>
                ELSE << >>)
    /\ reasoning_open' = FALSE
    /\ UNCHANGED <<chunks, collected_tool_calls, collected_content,
                   is_tool_call, usage, reasoning_chars, first_content>>

\* one iteration of `for chunk in stream`
StreamChunk(delta) ==
    /\ stream_pc = "iterating"
    /\ Len(chunks) < MaxDeltas
    /\ IF cancel_requested
       THEN Return(TRUE)
       ELSE LET eff == ChunkEffects(delta, first_content, reasoning_open)
            IN  /\ chunks' = Append(chunks, delta)
                /\ usage' = IF delta.usage # << >> THEN delta.usage[1]
                            ELSE usage
                /\ reasoning_chars' = reasoning_chars + Len(delta.reasoning)
                /\ collected_content' = collected_content \o delta.content
                /\ is_tool_call' = (is_tool_call \/ delta.tool_calls # << >>)
                /\ collected_tool_calls' =
                       MergeAll(collected_tool_calls, delta.tool_calls)
                /\ first_content' = eff.first_content
                /\ reasoning_open' = eff.reasoning_open
                /\ stream_events' = stream_events \o eff.events
                /\ UNCHANGED <<stream_pc, returned>>
    /\ UNCHANGED <<apiVars, runnerVars, busVars, logVars, chatVars>>

\* the stream is exhausted: lines 635-660
StreamEnd ==
    /\ stream_pc = "iterating"
    /\ Return(FALSE)
    /\ UNCHANGED <<apiVars, runnerVars, busVars, logVars, chatVars>>

\* the iteration raises (the connection breaks): the exception leaves
\* _stream_chat at the for statement
StreamRaise ==
    /\ stream_pc = "iterating"
    /\ stream_pc' = "raised"
    /\ UNCHANGED <<chunks, collected_tool_calls, collected_content,
                   is_tool_call, returned, usage, reasoning_chars,
                   first_content, reasoning_open, stream_events>>
    /\ UNCHANGED <<apiVars, runnerVars, busVars, logVars, chatVars>>

\* request_cancel while the stream is being iterated
StreamCancel ==
    /\ stream_pc = "iterating"
    /\ RequestCancel

InitStream ==
    /\ now = 0
    /\ ticks = 0
    /\ _items = [k \in {} |-> NoTicket]
    /\ nextId = 0
    /\ req = [h \in Handlers |-> IdleReq]
    /\ calls = 0
    /\ popped = {}
    /\ execBy = [k \in {} |-> 0]
    /\ RunnerIdle
    /\ StreamStart
    /\ BusStart
    /\ LogIdle
    /\ ChatIdle

NextStream ==
    \/ \E delta \in Deltas : StreamChunk(delta)
    \/ StreamEnd
    \/ StreamRaise
    \/ StreamCancel

SpecStream == InitStream /\ [][NextStream]_vars

(***************************************************************************)
(* OpencodeRuntime: registration, emit and the counters, driven as         *)
(* handle_input drives them.                                               *)
(***************************************************************************)
\* the position of the first listener that raises; 0 when none does
FirstRaising(handlers) ==
    IF \E i \in 1..Len(handlers) : handlers[i] = "raises"
    THEN CHOOSE i \in 1..Len(handlers) :
            /\ handlers[i] = "raises"
            /\ \A j \in 1..(i - 1) : handlers[j] # "raises"
    ELSE 0

\* emit: the handlers are called in registration order, and the exception
\* of one leaves the for loop
emit(event_type) ==
    LET k == FirstRaising(_handlers)
    IN  [event |-> [type |-> event_type, audience |-> Len(_handlers),
                    received |-> IF k = 0 THEN 1..Len(_handlers) ELSE 1..k],
         raised |-> k # 0]

\* an operation of the runtime that ends with emit, called from handle_input
\* when it is at `at`: the exception of a listener leaves handle_input
\* (inside the try blocks of the loop it is reported with system_message,
\* whose own emit raises again)
Emitting(event_type, at, next) ==
    LET e == emit(event_type)
    IN  /\ bus.pc = at
        /\ last_event' = e.event
        /\ bus' = IF e.raised
                  THEN [bus EXCEPT !.pc = "idle", !.aborted = TRUE]
                  ELSE next
        /\ UNCHANGED <<apiVars, runnerVars, streamVars, logVars, chatVars, _handlers>>

\* OpencodeRuntime.on
On(kind) ==
    /\ bus.pc = "idle"
    /\ stats.turns = 0
    /\ Len(_handlers) < MaxListeners
    /\ _handlers' = Append(_handlers, kind)
    /\ UNCHANGED <<apiVars, runnerVars, streamVars, logVars, chatVars, stats, last_event, bus>>

\* user_turn, at the start of handle_input
BusUserTurn ==
    /\ stats.turns < MaxBusTurns
    /\ stats' = [stats EXCEPT !.turns = @ + 1]
    /\ Emitting("turn.user", "idle",
                [BusIdle EXCEPT !.pc = "loop"])

\* set_agent_step, at the start of an iteration of the loop
BusSetAgentStep ==
    /\ bus.agent_steps < MaxBusSteps
    /\ stats' = [stats EXCEPT !.steps = bus.agent_steps + 1]
    /\ Emitting("agent.step", "loop",
                [bus EXCEPT !.pc = "streamed", !.agent_steps = @ + 1,
                            !.tools = 0])

Max0(n) == IF n > 0 THEN n ELSE 0

\* add_usage, lines 196-205: the counters after the call
add_usage(s, u) ==
    LET prompt == Max0(u[1])
        completion == Max0(u[2])
        total == IF Max0(u[3]) <= 0 THEN prompt + completion ELSE Max0(u[3])
        cost == Max0(u[4])
    IN  [s EXCEPT !.prompt_tokens = @ + prompt,
                  !.completion_tokens = @ + completion,
                  !.total_tokens = @ + total,
                  !.total_cost_usd = @ + cost]

\* add_usage, after _stream_chat
BusAddUsage(u) ==
    /\ stats' = add_usage(stats, u)
    /\ Emitting("usage.tokens", "streamed", [bus EXCEPT !.pc = "dispatch"])

\* tool_call, for a tool call of the assistant message
BusToolCall ==
    /\ bus.tools < 1
    /\ stats' = [stats EXCEPT !.tool_calls = @ + 1]
    /\ Emitting("tool.call", "dispatch",
                [bus EXCEPT !.pc = "tool", !.tools = @ + 1])

\* tool_result
BusToolResult(success) ==
    /\ stats' = [stats EXCEPT !.tool_failures = IF success THEN @ ELSE @ + 1]
    /\ Emitting("tool.result", "tool", [bus EXCEPT !.pc = "dispatch"])

\* the tool calls of the step are done: back to the while condition
BusNextStep ==
    /\ bus.pc = "dispatch"
    /\ bus.tools > 0
    /\ bus' = [bus EXCEPT !.pc = "loop"]
    /\ UNCHANGED <<apiVars, runnerVars, streamVars, logVars, chatVars, _handlers, stats,
                   last_event>>

\* handle_input returns
BusFinish ==
    /\ \/ bus.pc = "dispatch" /\ bus.tools = 0
       \/ bus.pc = "loop" /\ bus.agent_steps >= MaxBusSteps
    /\ bus' = [bus EXCEPT !.pc = "idle"]
    /\ UNCHANGED <<apiVars, runnerVars, streamVars, logVars, chatVars, _handlers, stats,
                   last_event>>

InitBus ==
    /\ now = 0
    /\ ticks = 0
    /\ _items = [k \in {} |-> NoTicket]
    /\ nextId = 0
    /\ req = [h \in Handlers |-> IdleReq]
    /\ calls = 0
    /\ popped = {}
    /\ execBy = [k \in {} |-> 0]
    /\ RunnerIdle
    /\ StreamStart
    /\ BusStart
    /\ LogIdle
    /\ ChatIdle

NextBus ==
    \/ \E kind \in ListenerKinds : On(kind)
    \/ BusUserTurn
    \/ BusSetAgentStep
    \/ \E u \in UsageInputs : BusAddUsage(u)
    \/ BusToolCall
    \/ \E success \in BOOLEAN : BusToolResult(success)
    \/ BusNextStep
    \/ BusFinish

SpecBus == InitBus /\ [][NextBus]_vars

(***************************************************************************)
(* The usage of one step: _stream_chat on a session's messages, then       *)
(* handle_input lines 761-772.                                             *)
(***************************************************************************)
\* self.messages at the provider call: a fresh session after the user's
\* text, a session with a tool round, a loaded session whose system message
\* is one character long
UsageHistories ==
    {<<SystemMsg, UserMsg("text")>>,
     <<SystemMsg, UserMsg("text"),
       AssistantMsg("", <<[id |-> <<1, 1>>, name |-> "read_file",
                           arguments |-> "{\"recursive\""]>>),
       ToolMsg(<<1, 1>>, "read_file", ToolOutput("read_file"))>>,
     <<[SystemMsg EXCEPT !.content = "s"], UserMsg("t")>>}

\* handle_input lines 762-772: the usage goes to the runtime's counters (the
\* model has no price entry: estimate_cost_usd gives 0)
RecordUsage ==
    /\ stream_pc = "returned"
    /\ stream_pc' = "recorded"
    /\ stats' = add_usage(stats, <<returned.usage.prompt_tokens,
                                   returned.usage.completion_tokens,
                                   returned.usage.total_tokens, 0>>)
    /\ last_event' = emit("usage.tokens").event
    /\ UNCHANGED <<chunks, collected_tool_calls, collected_content,
                   is_tool_call, returned, usage, reasoning_chars,
                   first_content, reasoning_open, stream_events>>
    /\ UNCHANGED <<apiVars, runnerVars, logVars, chatVars, _handlers, bus>>

InitUsage ==
    /\ now = 0
    /\ ticks = 0
    /\ _items = [k \in {} |-> NoTicket]
    /\ nextId = 0
    /\ req = [h \in Handlers |-> IdleReq]
    /\ calls = 0
    /\ popped = {}
    /\ execBy = [k \in {} |-> 0]
    /\ messages \in UsageHistories
    /\ build_mode = "balanced"
    /\ max_steps = BUILD_MODE_STEPS("balanced")
    /\ auto_approve_risky = FALSE
    /\ approval_callback = FALSE
    /\ cancel_requested = FALSE
    /\ pc = "loop"
    /\ agent_steps = 1
    /\ todo = << >>
    /\ script = NoScript
    /\ turn = [NoTurn EXCEPT !.provider_calls = 1]
    /\ lastCall = NoCall
    /\ result = NoResult
    /\ inputs = 1
    /\ StreamStart
    /\ BusStart
    /\ LogIdle
    /\ ChatIdle

NextUsage ==
    \/ \E delta \in UsageDeltas : StreamChunk(delta)
    \/ StreamEnd
    \/ StreamCancel
    \/ RecordUsage

SpecUsage == InitUsage /\ [][NextUsage]_vars

(***************************************************************************)
(* handle_input followed statement by statement around the cancel flag:    *)
(* the turn's setup, the clear at line 754, and each provider call chunk   *)
(* by chunk, with request_cancel arriving from another thread anywhere.    *)
(***************************************************************************)
\* what the provider streams in these turns: text, or the opening of a
\* tool call
CancelDeltas == {Delta("c", << >>), Delta("", <<Fragment(0, "call", "f", "")>>)}

\* handle_input lines 735-752: the user message is appended and the history
\* trimmed
TurnBegin ==
    /\ pc = "idle"
    /\ inputs < MaxInputs
    /\ inputs' = inputs + 1
    /\ messages' = _trim_messages(Append(messages, UserMsg("text")))
    /\ turn' = NoTurn
    /\ result' = NoResult
    /\ pc' = "setup"
    /\ UNCHANGED <<offRunner, build_mode, max_steps, auto_approve_risky,
                   approval_callback, cancel_requested, agent_steps, todo,
                   script, lastCall>>

\* handle_input lines 753-754
ClearCancel ==
    /\ pc = "setup"
    /\ agent_steps' = 0
    /\ cancel_requested' = _clear_cancel
    /\ turn' = [turn EXCEPT !.cleared = Append(@, cancel_requested)]
    /\ pc' = "loop"
    /\ UNCHANGED <<offRunner, messages, build_mode, max_steps,
                   auto_approve_risky, approval_callback, todo, script,
                   lastCall, result, inputs>>

\* handle_input lines 755-761 and _stream_chat lines 561-570: the next
\* iteration of the while loop calls the provider
StepBegin ==
    /\ pc = "loop"
    /\ LoopCondition
    /\ agent_steps < MaxCancelSteps
    /\ agent_steps' = agent_steps + 1
    /\ turn' = [turn EXCEPT !.provider_calls = @ + 1]
    /\ pc' = "stream"
    /\ chunks' = << >>
    /\ collected_tool_calls' = NoFragments
    /\ collected_content' = ""
    /\ is_tool_call' = FALSE
    /\ stream_pc' = "iterating"
    /\ returned' = NoReturn
    /\ usage' = NoUsage
    /\ reasoning_chars' = 0
    /\ first_content' = TRUE
    /\ reasoning_open' = FALSE
    /\ stream_events' = << >>
    /\ UNCHANGED <<apiVars, busVars, logVars, chatVars, messages, build_mode, max_steps,
                   auto_approve_risky, approval_callback, cancel_requested,
                   todo, script, lastCall, result, inputs>>

\* the tool messages of _run_tool_calls for calls of names the registry
\* does not hold (lines 692, 713-714)
RECURSIVE MissingToolMsgs(_)
MissingToolMsgs(tcs) ==
    IF tcs = << >> THEN << >>
    ELSE <<ToolMsg(Head(tcs).id, Head(tcs).name, ToolMissing(Head(tcs).name))>>
           \o MissingToolMsgs(Tail(tcs))

\* handle_input lines 773-789: what the iteration does with the outcome of
\* _stream_chat, whose locals are gone
StepEnd ==
    /\ pc = "stream"
    /\ stream_pc \in {"returned", "raised"}
    /\ stream_pc' = "none"
    /\ LET o == CASE stream_pc = "raised" -> "error"
                  [] returned.canceled -> "canceled"
                  [] returned.is_tool_call -> "tools"
                  [] OTHER -> "plain"
       IN  /\ turn' = [turn EXCEPT
                         !.notices =
                            CASE o = "error" -> @ \cup {ApiFailed}
                              [] o = "canceled" -> @ \cup {GenerationCancelled}
                              [] OTHER -> @]
           /\ messages' =
                CASE o = "tools" ->
                        Append(messages, returned.result_msg)
                          \o MissingToolMsgs(returned.result_msg.tool_calls)
                  [] o = "plain" -> Append(messages, returned.result_msg)
                  [] OTHER -> messages
           /\ pc' = IF o = "tools" THEN "loop" ELSE "exit"
    /\ chunks' = << >>
    /\ collected_tool_calls' = NoFragments
    /\ collected_content' = ""
    /\ is_tool_call' = FALSE
    /\ returned' = NoReturn
    /\ usage' = NoUsage
    /\ reasoning_chars' = 0
    /\ first_content' = TRUE
    /\ reasoning_open' = FALSE
    /\ stream_events' = << >>
    /\ UNCHANGED <<apiVars, busVars, logVars, chatVars, build_mode, max_steps,
                   auto_approve_risky, approval_callback, cancel_requested,
                   agent_steps, todo, script, lastCall, result, inputs>>

InitCancel ==
    /\ now = 0
    /\ ticks = 0
    /\ _items = [k \in {} |-> NoTicket]
    /\ nextId = 0
    /\ req = [h \in Handlers |-> IdleReq]
    /\ calls = 0
    /\ popped = {}
    /\ execBy = [k \in {} |-> 0]
    /\ RunnerIdle
    /\ chunks = << >>
    /\ collected_tool_calls = NoFragments
    /\ collected_content = ""
    /\ is_tool_call = FALSE
    /\ stream_pc = "none"
    /\ returned = NoReturn
    /\ usage = NoUsage
    /\ reasoning_chars = 0
    /\ first_content = TRUE
    /\ reasoning_open = FALSE
    /\ stream_events = << >>
    /\ BusStart
    /\ LogIdle
    /\ ChatIdle

NextCancel ==
    \/ TurnBegin
    \/ ClearCancel
    \/ StepBegin
    \/ \E delta \in CancelDeltas : StreamChunk(delta)
    \/ StreamEnd
    \/ StreamRaise
    \/ StepEnd
    \/ Finish
    \/ RequestCancel

SpecCancel == InitCancel /\ [][NextCancel]_vars

(***************************************************************************)
(* chat_stream: the generator of one request, read to its end by the       *)
(* client.                                                                 *)
(***************************************************************************)
\* _trim_history, lines 63-66
_trim_history(msgs) ==
    IF Len(msgs) > MAX_HISTORY_MESSAGES + 1
    THEN <<msgs[1]>> \o SubSeq(msgs, Len(msgs) - MAX_HISTORY_MESSAGES + 1,
                              Len(msgs))
    ELSE msgs

ChatScripts ==
    {ChatScript(b, a, r, e, n) :
        b \in Batches, a \in ArgTexts, r \in BOOLEAN, e \in ChatEndings,
        n \in {1, 2, CHAT_MAX_STEPS + 1}}

\* the scripts of a request on a session that already holds one
LaterChatScripts ==
    {ChatScript(<<"delete_file">>, "{\"recursive\"", FALSE, e, n) :
        e \in {"plain"}, n \in {2, CHAT_MAX_STEPS + 1}}

\* the result text of the gated branch (line 184)
NeedsApproval(func_name) == "needs user approval: " \o func_name

needs_approvalNever(func_name, auto_approve) == FALSE

\* line 178
needs_approval(func_name, auto_approve) ==
    is_risky(func_name) /\ ~auto_approve

\* lines 170-200: the branch taken for one tool call, the event it yields
\* and the result text
ChatDispatch(tc, auto_approve, raises) ==
    IF needs_approval(tc.name, auto_approve)
    THEN [event |-> "approval_required", executed |-> FALSE,
          args |-> json_loads(tc.arguments),
          result |-> NeedsApproval(tc.name)]
    ELSE IF tc.name \in available_functions
    THEN [event |-> "tool_result", executed |-> TRUE,
          args |-> json_loads(tc.arguments),
          result |-> IF raises THEN "Error: e" ELSE ToolOutput(tc.name)]
    ELSE [event |-> "", executed |-> FALSE,
          args |-> json_loads(tc.arguments),
          result |-> ToolMissing(tc.name)]

\* tool_calls_list of step n of request r (lines 156-163)
ChatToolCalls(r, n, scr) ==
    [i \in 1..Len(scr.batch) |->
        [id |-> <<r, n, i>>, name |-> scr.batch[i],
         arguments |-> scr.arguments]]

\* chat_stream lines 92-103: the request arrives
ChatRequest(auto_approve, scr) ==
    /\ generate.pc = "idle"
    /\ generate.request < MaxChatRequests
    /\ session_messages' =
          _trim_history(Append(session_messages, UserMsg("text")))
    /\ generate' = [pc |-> "loop", step |-> 0, auto_approve |-> auto_approve,
                    todo |-> << >>, script |-> scr,
                    request |-> generate.request + 1]
    /\ sse' = NoSse
    /\ UNCHANGED <<apiVars, runnerVars, streamVars, busVars, logVars>>

\* lines 105-166: one iteration of the while loop up to the tool calls
ChatStep ==
    /\ generate.pc = "loop"
    /\ generate.step < CHAT_MAX_STEPS
    /\ LET n == generate.step + 1
           scr == generate.script
           o == IF n = scr.end_at THEN scr.ending ELSE "tools"
           tcs == ChatToolCalls(generate.request, n, scr)
       IN  /\ generate' = [generate EXCEPT
                             !.step = n,
                             !.todo = IF o = "tools" THEN tcs ELSE << >>,
                             !.pc = IF o = "tools" THEN "tools" ELSE "idle"]
           /\ session_messages' =
                CASE o = "tools" ->
                        Append(session_messages, AssistantMsg("", tcs))
                  [] o = "plain" ->
                        Append(session_messages, AssistantMsg("answer", << >>))
                  [] OTHER -> session_messages
           /\ sse' = [sse EXCEPT
                        !.provider_calls = @ + 1,
                        !.done = IF o = "plain" THEN @ + 1 ELSE @,
                        !.error = IF o = "error" THEN @ \cup {"API error"}
                                  ELSE @]
    /\ UNCHANGED <<apiVars, runnerVars, streamVars, busVars, logVars>>

\* lines 169-207: one iteration of `for tc in tool_calls_list`
ChatToolCall ==
    /\ generate.pc = "tools"
    /\ generate.todo # << >>
    /\ LET tc == Head(generate.todo)
           d == ChatDispatch(tc, generate.auto_approve, generate.script.raises)
       IN  /\ sse' = [sse EXCEPT
                        !.approval_required =
                            IF d.event = "approval_required"
                            THEN @ \cup {tc.id} ELSE @,
                        !.tool_start = IF d.executed THEN @ \cup {tc.id} ELSE @,
                        !.tool_result = IF d.executed THEN @ \cup {tc.id} ELSE @]
           /\ session_messages' =
                Append(session_messages, ToolMsg(tc.id, tc.name, d.result))
    /\ generate' = [generate EXCEPT
                      !.todo = Tail(@),
                      !.pc = IF Tail(generate.todo) = << >> THEN "loop"
                             ELSE "tools"]
    /\ UNCHANGED <<apiVars, runnerVars, streamVars, busVars, logVars>>

\* line 209: the while condition fails
ChatLimit ==
    /\ generate.pc = "loop"
    /\ ~(generate.step < CHAT_MAX_STEPS)
    /\ generate' = [generate EXCEPT !.pc = "idle"]
    /\ sse' = [sse EXCEPT !.error = @ \cup {"Reached max agent steps"}]
    /\ UNCHANGED <<apiVars, runnerVars, streamVars, busVars, logVars,
                   session_messages>>

InitChat ==
    /\ now = 0
    /\ ticks = 0
    /\ _items = [k \in {} |-> NoTicket]
    /\ nextId = 0
    /\ req = [h \in Handlers |-> IdleReq]
    /\ calls = 0
    /\ popped = {}
    /\ execBy = [k \in {} |-> 0]
    /\ RunnerIdle
    /\ StreamStart
    /\ BusStart
    /\ LogIdle
    /\ ChatIdle

NextChat ==
    \/ \E auto_approve \in BOOLEAN :
         \E scr \in IF Len(session_messages) = 1 THEN ChatScripts
                    ELSE LaterChatScripts :
            ChatRequest(auto_approve, scr)
    \/ ChatStep
    \/ ChatToolCall
    \/ ChatLimit

SpecChat == InitChat /\ [][NextChat]_vars

(***************************************************************************)
(* OpencodeRuntime.emit with its log write: _append_log, lines 71-102, and *)
(* _maybe_rotate_log, lines 104-115.  The file operations of one emit are  *)
(* separate steps; the module takes no lock around them.                   *)
(***************************************************************************)
check_dueAlways(count) == TRUE

\* line 73
check_due(count) == count % LOG_CHECK_EVERY = 0

\* open(log_path, "a") and write: a missing file is created, and a file
\* that holds one record is below the threshold
Appended(file, grows) ==
    IF file.records = 0 THEN LogFile(file.gen + 1, 1, FALSE)
    ELSE LogFile(file.gen, 2, file.big \/ grows)

\* lines 97-102 and 119-121: the append inside try/except (`ok`: it did not
\* raise), then the loop over the handlers
AppendAndDeliver(e, last, ok, grows) ==
    /\ log_file' = IF ok THEN Appended(log_file, grows) ELSE log_file
    /\ log_last' = [log_last EXCEPT ![e] =
          [last EXCEPT !.appended = ok, !.raised = @ \/ ~ok]]
    /\ log_history' = [log_history EXCEPT
          !.delivered[e] = @ + 1,
          !.crossings = IF ok /\ ~log_file.big /\ Appended(log_file, grows).big
                        THEN @ + 1 ELSE @]

\* emit on a write for which no size check is due
LogWrite(e, limit, ok, grows) ==
    /\ log_pc[e] = "idle"
    /\ _log_write_count[e] < limit
    /\ ~check_due(_log_write_count[e] + 1)
    /\ _log_write_count' = [_log_write_count EXCEPT ![e] = @ + 1]
    /\ AppendAndDeliver(e, NoLast, ok, grows)
    /\ UNCHANGED <<apiVars, runnerVars, streamVars, busVars, chatVars, log_pc>>

\* emit on a write for which the check is due: _maybe_rotate_log up to its
\* decision (`ok`: exists and getsize did not raise)
LogCheck(e, limit, ok) ==
    /\ log_pc[e] = "idle"
    /\ _log_write_count[e] < limit
    /\ check_due(_log_write_count[e] + 1)
    /\ _log_write_count' = [_log_write_count EXCEPT ![e] = @ + 1]
    /\ log_history' = [log_history EXCEPT !.checks[e] = @ + 1]
    /\ log_last' = [log_last EXCEPT ![e] =
          [NoLast EXCEPT !.due = TRUE, !.raised = ~ok]]
    /\ log_pc' = [log_pc EXCEPT ![e] =
          IF ok /\ log_file.records > 0 /\ log_file.big
          THEN "rename" ELSE "append"]
    /\ UNCHANGED <<apiVars, runnerVars, streamVars, busVars, chatVars, log_file>>

\* os.replace(log_path, archived), line 113; it raises when the file is gone
\* or when the system refuses (`ok` false), and the exception is swallowed
LogRename(e, ok) ==
    /\ log_pc[e] = "rename"
    /\ IF ok /\ log_file.records > 0
       THEN /\ log_file' = LogFile(log_file.gen, 0, FALSE)
            /\ log_last' = [log_last EXCEPT ![e].rotated = TRUE]
            /\ log_history' = [log_history EXCEPT !.rotations = @ + 1]
       ELSE /\ log_last' = [log_last EXCEPT ![e].raised = TRUE]
            /\ UNCHANGED <<log_file, log_history>>
    /\ log_pc' = [log_pc EXCEPT ![e] = "append"]
    /\ UNCHANGED <<apiVars, runnerVars, streamVars, busVars, chatVars, _log_write_count>>

\* the append of the event that triggered the check, and its delivery
LogAppend(e, ok, grows) ==
    /\ log_pc[e] = "append"
    /\ AppendAndDeliver(e, log_last[e], ok, grows)
    /\ log_pc' = [log_pc EXCEPT ![e] = "idle"]
    /\ UNCHANGED <<apiVars, runnerVars, streamVars, busVars, chatVars, _log_write_count>>

InitLog ==
    /\ now = 0
    /\ ticks = 0
    /\ _items = [k \in {} |-> NoTicket]
    /\ nextId = 0
    /\ req = [h \in Handlers |-> IdleReq]
    /\ calls = 0
    /\ popped = {}
    /\ execBy = [k \in {} |-> 0]
    /\ RunnerIdle
    /\ StreamStart
    /\ BusStart
    /\ \E big \in BOOLEAN : LogConstructed(big)
    /\ ChatIdle

\* one runtime writes the log; file operations may fail
NextLog ==
    \/ \E ok \in BOOLEAN, grows \in BOOLEAN : LogWrite(1, MaxLogWrites, ok, grows)
    \/ \E ok \in BOOLEAN : LogCheck(1, MaxLogWrites, ok)
    \/ \E ok \in BOOLEAN : LogRename(1, ok)
    \/ \E ok \in BOOLEAN, grows \in BOOLEAN : LogAppend(1, ok, grows)

SpecLog == InitLog /\ [][NextLog]_vars

\* two runtimes write the same log; no file operation fails by itself
NextLogRace ==
    \/ \E e \in Emitters, grows \in BOOLEAN :
          LogWrite(e, MaxRaceWrites, TRUE, grows)
    \/ \E e \in Emitters : LogCheck(e, MaxRaceWrites, TRUE)
    \/ \E e \in Emitters : LogRename(e, TRUE)
    \/ \E e \in Emitters, grows \in BOOLEAN : LogAppend(e, TRUE, grows)

SpecLogRace == InitLog /\ [][NextLogRace]_vars

(***************************************************************************)
(* Properties of the ticket protocol (checked under SpecApi).              *)
(***************************************************************************)
\* the activation is a confirmation of a risky registered tool that reached
\* line 71 (it carries a non-empty approval_id)
IsConfirm(r) ==
    /\ r.tool \in available_functions /\ r.tool \in RISKY_TOOLS
    /\ r.confirm /\ ~r.dry_run

IsPreview(r) ==
    /\ r.tool \in available_functions /\ r.tool \in RISKY_TOOLS
    /\ (r.dry_run \/ ~r.confirm)

Popped(r) == IsConfirm(r) /\ r.pc \in {"exec", "done"} /\ r.approval_id # NoId

Holds(r) == Popped(r) /\ r.ticket # NoTicket

\* handler h runs line 71 in this step
PopStep(h) == req[h].pc = "pop" /\ req'[h].pc # "pop"

\* handler h enters call_tool in this step
CallStep(h) == req[h].pc = "idle" /\ req'[h].pc # "idle"

LaterConfirmsFail ==
    \A h \in Handlers :
        (Popped(req[h]) /\ req[h].late) =>
            /\ req[h].pc = "done"
            /\ req[h].resp = ErrorResp(ErrNotFound)
            /\ req[h].invoked = 0

\* the first confirm that finds the ticket live and identical goes on to
\* execute and takes the ticket out of the store
IdenticalConfirmRuns ==
    \A h \in Handlers :
        LET id == req[h].approval_id
        IN  (/\ PopStep(h)
             /\ id \in DOMAIN _items
             /\ _items[id].expires_at > now
             /\ _items[id].tool = req[h].tool
             /\ _items[id].args = req[h].args)
            => /\ req'[h].pc = "exec"
               /\ req'[h].ticket = _items[id]
               /\ id \notin DOMAIN _items'

\* C1 as stated: a confirm with the ticket's id, tool and arguments executes
\* the tool and returns status ok exactly once; every later confirm with the
\* same id returns "Approval ticket not found or expired." and does not
\* execute.
C1_RoundTripAlwaysOk ==
    /\ \A id \in DOMAIN execBy : execBy[id] <= 1
    /\ LaterConfirmsFail
    /\ \A h \in Handlers :
        LET r == req[h]
        IN  (r.pc = "done" /\ Holds(r) /\ r.ticket.tool = r.tool
                /\ r.ticket.args = r.args)
            => (r.invoked = 1 /\ r.resp.status = "ok")

\* C1 (amended): the first confirm that carries the ticket's id before the
\* ticket expires, with the identical tool name and arguments, invokes the
\* tool exactly once and returns status ok when the callable returns (status
\* error carrying the exception text when it raises); no ticket authorises a
\* second invocation, and every later confirm with the same id returns
\* "Approval ticket not found or expired." without executing.
C1_RoundTrip ==
    [][ /\ IdenticalConfirmRuns
        /\ (\A id \in DOMAIN execBy : execBy[id] <= 1)'
        /\ LaterConfirmsFail'
        /\ (\A h \in Handlers :
              LET r == req[h]
              IN  (r.pc = "done" /\ Holds(r) /\ r.ticket.tool = r.tool
                      /\ r.ticket.args = r.args)
                  => /\ r.invoked = 1
                     /\ r.resp \in {OkResp, ErrorResp(ErrToolRaised)}
                     /\ execBy[r.approval_id] = 1)'
      ]_vars

\* a second confirm with the id of an executed ticket has been refused
C1_Witness ==
    \E h \in Handlers :
        /\ req[h].pc = "done" /\ Popped(req[h]) /\ req[h].late
        /\ req[h].resp = ErrorResp(ErrNotFound)
        /\ execBy[req[h].approval_id] = 1

\* C2: a confirm whose arguments differ from the ticket's snapshot (a key
\* added, removed or changed) returns status error and never invokes the
\* tool.
C2_ArgsMismatchNeverExecutes ==
    \A h \in Handlers :
        LET r == req[h]
        IN  (Holds(r) /\ r.ticket.args # r.args)
            => /\ r.pc = "done"
               /\ r.resp.status = "error"
               /\ r.invoked = 0

\* C3: of the confirms racing for one ticket id at most one obtains the
\* ticket and executes; every other one gets the not-found error, in every
\* interleaving.
C3_AtMostOnce ==
    /\ \A id \in DOMAIN execBy : execBy[id] <= 1
    /\ \A h1, h2 \in Handlers :
        (h1 # h2 /\ Popped(req[h1]) /\ Popped(req[h2])
            /\ req[h1].approval_id = req[h2].approval_id)
        => /\ ~(Holds(req[h1]) /\ Holds(req[h2]))
           /\ \A h \in {h1, h2} :
                ~Holds(req[h]) =>
                    /\ req[h].pc = "done"
                    /\ req[h].resp = ErrorResp(ErrNotFound)
                    /\ req[h].invoked = 0
    /\ \A h \in Handlers : Holds(req[h]) => ~req[h].late

\* one handler holds the ticket and has not yet executed, while the other,
\* with the same id, tool and arguments and before the expiry time, has
\* already been refused
C3_Witness ==
    \E h1, h2 \in Handlers :
        /\ h1 # h2
        /\ req[h1].pc = "exec" /\ Holds(req[h1])
        /\ req[h2].pc = "done" /\ Popped(req[h2])
        /\ req[h2].approval_id = req[h1].approval_id
        /\ req[h2].tool = req[h1].tool /\ req[h2].args = req[h1].args
        /\ req[h2].poppedAt < req[h1].ticket.expires_at
        /\ req[h2].resp = ErrorResp(ErrNotFound)

MismatchRejected(r) ==
    /\ r.pc = "done" /\ Popped(r)
    /\ r.resp.error \in {ErrToolMismatch, ErrArgsMismatch}

\* C4 as stated: a confirm rejected with tool mismatch or args mismatch does
\* not consume the ticket, which is still in the store after the failed call.
C4_MismatchKeepsTicket ==
    \A h \in Handlers :
        MismatchRejected(req[h]) => req[h].approval_id \in DOMAIN _items

\* C4 (amended): a ticket leaves the store only through a confirm call that
\* carries its id (whether or not that call then matches) or through expiry;
\* a confirm rejected with tool mismatch or args mismatch has consumed the
\* ticket, which is no longer in the store after the failed call.
C4_ConfirmConsumes ==
    [][ /\ \A id \in DOMAIN _items \ DOMAIN _items' :
            \/ _items[id].expires_at <= now
            \/ \E h \in Handlers :
                /\ PopStep(h) /\ req[h].approval_id = id
                /\ req'[h].ticket = _items[id]
        /\ (\A h \in Handlers :
              MismatchRejected(req[h]) =>
                /\ req[h].ticket # NoTicket
                /\ req[h].approval_id \notin DOMAIN _items
                /\ req[h].invoked = 0)'
      ]_vars

\* an unexpired ticket is gone after an args-mismatch rejection (the
\* arguments differed by an added key)
C4_Witness ==
    \E h \in Handlers :
        /\ MismatchRejected(req[h])
        /\ req[h].resp.error = ErrArgsMismatch
        /\ req[h].ticket.expires_at > now
        /\ DOMAIN req[h].ticket.args # DOMAIN req[h].args
        /\ req[h].approval_id \notin DOMAIN _items

\* C5: every call of a risky tool with dry_run=true or confirm=false (also
\* one that carries confirm=true and a valid approval_id together with
\* dry_run=true) creates a new ticket, returns needs_approval with a
\* non-empty approval_id and a preview, invokes nothing and consumes no
\* existing ticket.
C5_PreviewNeverExecutes ==
    [][ \A h \in Handlers :
          (CallStep(h) /\ IsPreview(req'[h])) =>
            LET r == req'[h]
                id == r.resp.approval_id
            IN  /\ r.pc = "done"
                /\ r.resp.status = "needs_approval"
                /\ r.resp.success = FALSE
                /\ id # NoId
                /\ id \notin DOMAIN _items
                /\ id \in DOMAIN _items'
                /\ _items'[id].tool = r.tool
                /\ _items'[id].args = r.args
                /\ r.resp.preview = <<_preview_args(r.args)>>
                /\ r.invoked = 0
                /\ execBy'[id] = 0
                /\ \A k \in DOMAIN execBy : execBy'[k] = execBy[k]
                /\ popped' = popped
                /\ \A k \in DOMAIN _items :
                     _items[k].expires_at > now =>
                        (k \in DOMAIN _items' /\ _items'[k] = _items[k])
      ]_vars

\* a call with dry_run=true, confirm=true and the id of a ticket that is in
\* the store got a preview, and that ticket is still in the store
C5_Witness ==
    \E h \in Handlers :
        LET r == req[h]
        IN  /\ r.pc = "done" /\ IsPreview(r)
            /\ r.dry_run /\ r.confirm
            /\ r.approval_id \in DOMAIN _items
            /\ _items[r.approval_id].tool = r.tool
            /\ _items[r.approval_id].args = r.args
            /\ r.resp.status = "needs_approval"
            /\ r.resp.approval_id \in DOMAIN _items
            /\ r.resp.approval_id # r.approval_id

\* this step runs a store operation (create, pop or get)
StoreOpStep ==
    \/ nextId' # nextId
    \/ \E h \in Handlers : PopStep(h)
    \/ \E id \in 1..nextId : Lookup(id)

\* C6: create, get and pop first remove every ticket whose expires_at is at
\* or before the current time: a confirm processed at or after the ticket's
\* expiry time returns the not-found/expired error without executing, and
\* after a store operation no ticket with expires_at at or before the
\* operation's time is left in the map.
C6_Expiry ==
    [][ /\ StoreOpStep =>
            \A k \in DOMAIN _items' : _items'[k].expires_at > now
        /\ \A h \in Handlers :
            LET id == req[h].approval_id
            IN  (/\ PopStep(h)
                 /\ id \in DOMAIN _items
                 /\ _items[id].expires_at <= now)
                => /\ req'[h].pc = "done"
                   /\ req'[h].ticket = NoTicket
                   /\ req'[h].resp = ErrorResp(ErrNotFound)
                   /\ req'[h].invoked = 0
        /\ (\A h \in Handlers :
              Holds(req[h]) => req[h].poppedAt < req[h].ticket.expires_at)'
      ]_vars

\* a confirm for a ticket that nobody consumed was refused exactly at the
\* ticket's expiry time, and the map holds no expired ticket
C6_Witness ==
    \E h \in Handlers :
        LET r == req[h]
        IN  /\ r.pc = "done" /\ Popped(r)
            /\ r.approval_id \notin popped
            /\ r.poppedAt = ttl_seconds
            /\ r.resp = ErrorResp(ErrNotFound)
            /\ r.invoked = 0
            /\ r.approval_id \notin DOMAIN _items

\* C9: a confirm on a risky tool fails with four pairwise distinct errors for
\* (a) empty approval_id, (b) ticket missing or expired, (c) ticket tool name
\* differs, (d) ticket arguments differ; each time status is error, the tool
\* is not executed and nothing is retried.
C9_FourDistinctErrors ==
    /\ Cardinality({ErrMissingId, ErrNotFound, ErrToolMismatch, ErrArgsMismatch}) = 4
    /\ \A h \in Handlers :
        LET r == req[h]
            Fails(msg) == /\ r.pc = "done"
                          /\ r.resp = ErrorResp(msg)
                          /\ r.invoked = 0
        IN  (IsConfirm(r) /\ r.pc \in {"exec", "done"}) =>
              /\ r.approval_id = NoId => Fails(ErrMissingId)
              /\ (r.approval_id # NoId /\ r.ticket = NoTicket) => Fails(ErrNotFound)
              /\ (r.ticket # NoTicket /\ r.ticket.tool # r.tool) => Fails(ErrToolMismatch)
              /\ (r.ticket # NoTicket /\ r.ticket.tool = r.tool
                    /\ r.ticket.args # r.args) => Fails(ErrArgsMismatch)

\* C7: a tool outside the risk set is never gated.  _approve allows it with
\* the arguments unchanged whatever the auto-approve flag, the callback and
\* the callback's answer are; call_tool invokes a registered one whatever
\* dry_run, confirm and approval_id are, and creates and consumes no ticket.
C7_NonRiskyNeverGated ==
    /\ [](\A f \in (ToolNames \cup RunnerTools) \ RISKY_TOOLS :
          \A args \in ArgDicts, auto \in BOOLEAN, callback \in BOOLEAN,
             decision \in Decisions \cup {NoCallback} :
              _approve(f, args, auto, callback, decision)
                = Triple(TRUE, "", <<args>>))
    /\ [][ \A h \in Handlers :
             (CallStep(h) /\ req'[h].tool \in available_functions \ RISKY_TOOLS)
             => /\ req'[h].pc = "done"
                /\ req'[h].invoked = 1
                /\ req'[h].resp \in {OkResp, ErrorResp(ErrToolRaised)}
                /\ req'[h].ticket = NoTicket
                /\ _items' = _items
                /\ nextId' = nextId
                /\ popped' = popped
                /\ execBy' = execBy
         ]_vars

\* a non-risky tool ran on a call that asked for a dry run and carried the id
\* of a ticket in the store, and the ticket is still there
C7_Witness ==
    \E h \in Handlers :
        LET r == req[h]
        IN  /\ r.pc = "done"
            /\ r.tool \in available_functions \ RISKY_TOOLS
            /\ r.dry_run /\ r.confirm
            /\ r.approval_id \in DOMAIN _items
            /\ r.invoked = 1
            /\ r.resp = OkResp

\* the next tool call of the batch is dispatched in this step
DispatchStep == todo # << >> /\ todo' = Tail(todo)

\* C8: a risky tool requested while no approval callback is attached and
\* auto-approval is off is not invoked; the tool message appended for the
\* call carries the fixed rejection text, and the loop goes on with the next
\* call of the batch or with the next step.
C8_DefaultDeny ==
    [][ (/\ DispatchStep
         /\ Head(todo).name \in RISKY_TOOLS
         /\ ~approval_callback
         /\ ~auto_approve_risky)
        => /\ turn'.invoked = turn.invoked
           /\ lastCall'.attempts = 0
           /\ messages' = Append(messages,
                 ToolMsg(Head(todo).id, Head(todo).name, RejectNoApprover))
           /\ agent_steps' = agent_steps
           /\ pc' = IF Tail(todo) # << >> THEN "tools" ELSE "loop"
      ]_vars

\* a risky call was refused for want of an approver, the next call of the
\* same batch ran, and the provider was called again
C8_Witness ==
    /\ ~approval_callback /\ ~auto_approve_risky
    /\ \E i \in 1..(Len(messages) - 2) :
        /\ messages[i].role = "tool"
        /\ messages[i].name \in RISKY_TOOLS
        /\ messages[i].content = RejectNoApprover
        /\ messages[i + 1].role = "tool"
        /\ messages[i + 1].content = ToolOutput(messages[i + 1].name)
        /\ messages[i + 2].role = "assistant"
    /\ turn.provider_calls = 2

\* handle_input returns in this step
ReturnStep == pc # "idle" /\ pc' = "idle"

\* C10: the ceiling is 8 in fast, 15 in balanced and 24 in deep mode; no turn
\* makes more provider calls than the ceiling; a turn in which every provider
\* call returned tool calls, without cancellation or provider error, makes
\* exactly that many, then ends, emits the step-limit event once and reports
\* steps equal to the ceiling.
C10_StepBound ==
    [][ /\ (/\ build_mode \in BuildModes
            /\ build_mode = "fast" => max_steps = 8
            /\ build_mode = "balanced" => max_steps = 15
            /\ build_mode = "deep" => max_steps = 24)'
        /\ (pc # "idle" => turn.provider_calls <= max_steps)'
        /\ ReturnStep => result'.steps = turn.provider_calls
                          /\ result'.steps <= max_steps
        /\ (/\ ReturnStep
            /\ \/ pc = "loop"
               \/ script.end_at = 0 /\ ~cancel_requested)
           => /\ pc = "loop"
              /\ turn.provider_calls = max_steps
              /\ turn'.provider_calls = max_steps
              /\ turn.limit_events = 0
              /\ turn'.limit_events = 1
              /\ result' = [kind |-> "turn_done", steps |-> max_steps]
      ]_vars

\* a turn in deep mode in which the model kept asking for tools has ended
\* after 24 provider calls with the step-limit event
C10_Witness ==
    /\ pc = "idle"
    /\ build_mode = "deep"
    /\ script.end_at = 0
    /\ turn.provider_calls = 24
    /\ turn.limit_events = 1
    /\ result = [kind |-> "turn_done", steps |-> 24]
    /\ Len(messages) >= 2 * 24

\* the turn ends in this step after a break out of the loop: the model gave
\* plain content, the cancellation was seen, or the provider failed
BreakReturn == ReturnStep /\ pc = "exit"

\* C11: the step-limit event is emitted for a turn only if the loop ran out
\* of steps without a plain-content finish; a turn ended by plain content, by
\* an observed cancellation or by a provider failure emits none, also when
\* that happens on the step whose number is max_steps.
C11_LimitOnlyWhenExhausted ==
    [][ /\ BreakReturn => turn'.limit_events = turn.limit_events
        /\ (ReturnStep /\ turn'.limit_events # turn.limit_events)
             => pc = "loop"
      ]_vars

\* _approve lets the call of func_name run
Approved(func_name) ==
    \/ func_name \notin RISKY_TOOLS
    \/ auto_approve_risky
    \/ approval_callback /\ script.decision \in {"approve", "manual"}

StartsWithError(text) == Len(text) >= 5 /\ SubSeq(text, 1, 5) = "Error"

\* C12: with max_tool_retries = M, an approved registered tool whose callable
\* raises on its first K-1 invocations and returns on the K-th (1 <= K <= M)
\* is invoked exactly K times and its return value is the result; one that
\* always raises is invoked exactly M times and the result is a text
\* beginning with "Error"; either way the tool message is appended and
\* _run_tool_calls goes on.
C12_RetryBound ==
    [][ (/\ DispatchStep
         /\ Head(todo).name \in available_functions
         /\ Approved(Head(todo).name))
        => LET K == script.fails + 1
               M == MAX_TOOL_RETRIES
               name == Head(todo).name
           IN  /\ K <= M =>
                    /\ lastCall'.attempts = K
                    /\ turn'.invoked = turn.invoked + K
                    /\ lastCall'.result = ToolOutput(name)
               /\ K > M =>
                    /\ lastCall'.attempts = M
                    /\ turn'.invoked = turn.invoked + M
                    /\ StartsWithError(lastCall'.result)
               /\ messages' = Append(messages,
                     ToolMsg(Head(todo).id, name, lastCall'.result))
               /\ pc' \in {"tools", "loop"}
      ]_vars

\* a callable that raised on its first M-1 invocations returned on the M-th and
\* its return value is the content of the tool message
C12_Witness ==
    /\ script.fails = MAX_TOOL_RETRIES - 1
    /\ lastCall.name \in available_functions
    /\ lastCall.should_run
    /\ lastCall.attempts = MAX_TOOL_RETRIES
    /\ lastCall.result = ToolOutput(lastCall.name)
    /\ messages[Len(messages)].role = "tool"
    /\ messages[Len(messages)].content = ToolOutput(lastCall.name)

\* the tool-call fragments of the deltas iterated so far, in arrival order
RECURSIVE Arrived(_)
Arrived(ds) ==
    IF ds = << >> THEN << >> ELSE Head(ds).tool_calls \o Arrived(Tail(ds))

RECURSIVE JoinArguments(_)
JoinArguments(fs) ==
    IF fs = << >> THEN "" ELSE Head(fs).arguments \o JoinArguments(Tail(fs))

FragmentsOf(i) == SelectSeq(Arrived(chunks), LAMBDA f : f.index = i)

ArrivedIndexes == {Arrived(chunks)[k].index : k \in 1..Len(Arrived(chunks))}

\* C13: the message _stream_chat returns lists exactly one tool call per
\* distinct fragment index, in ascending index order, and the argument text
\* of each is the concatenation of that index's argument fragments in
\* arrival order.
C13_FragmentAggregation ==
    stream_pc = "returned" =>
        LET tcs == returned.result_msg.tool_calls
        IN  /\ Len(tcs) = Cardinality(ArrivedIndexes)
            /\ \A i \in ArrivedIndexes :
                LET rank == Cardinality({j \in ArrivedIndexes : j <= i})
                IN  /\ tcs[rank].arguments = JoinArguments(FragmentsOf(i))
                    /\ tcs[rank].name \in
                         {FragmentsOf(i)[k].name : k \in 1..Len(FragmentsOf(i))}
            /\ returned.is_tool_call = (Arrived(chunks) # << >>)

\* the fragments of index 0 arrived before and after the one of index 1, and
\* the message lists index 0 first with its two texts joined
C13_Witness ==
    /\ stream_pc = "returned"
    /\ ~returned.canceled
    /\ Len(Arrived(chunks)) = 3
    /\ Arrived(chunks)[1].index = 0
    /\ Arrived(chunks)[2].index = 1
    /\ Arrived(chunks)[3].index = 0
    /\ Len(returned.result_msg.tool_calls) = 2
    /\ returned.result_msg.tool_calls[1].arguments = "ab"
    /\ returned.result_msg.tool_calls[2].arguments = "b"

\* C14: every tool message of the session's message list carries the id of
\* a tool call of the nearest preceding assistant message, and only tool
\* messages lie between the two; also after turns that trimmed the history.
C14_ToolMessagesAnswerCalls ==
    \A i \in 1..Len(messages) :
        messages[i].role = "tool" =>
            \E j \in 1..(i - 1) :
                /\ messages[j].role = "assistant"
                /\ \A k \in (j + 1)..(i - 1) : messages[k].role = "tool"
                /\ \E t \in 1..Len(messages[j].tool_calls) :
                     messages[j].tool_calls[t].id = messages[i].tool_call_id

\* a provider call is made in this step
ProviderStep == agent_steps' = agent_steps + 1

\* the stream of the step that starts now has at least one delta
StreamHasDeltas ==
    ~(script.end_at = agent_steps + 1 /\ script.ending \in {"empty", "error"})

\* C15: a step whose stream iteration sees the cancel flag appends no
\* assistant message, dispatches no tool call and is the last provider call
\* of the turn; the session is saved before handle_input returns.
C15_CleanCancel ==
    [][ /\ (ProviderStep /\ cancel_requested /\ StreamHasDeltas)
           => /\ messages' = messages
              /\ todo' = << >>
              /\ turn'.invoked = turn.invoked
              /\ pc' = "exit"
        /\ (pc = "exit" /\ <<messages, turn, pc, agent_steps, todo>>'
                            # <<messages, turn, pc, agent_steps, todo>>)
           => /\ ReturnStep
              /\ messages' = messages
              /\ turn' = [turn EXCEPT !.saves = @ + 1,
                            !.limit_events = turn'.limit_events]
              /\ result' = [kind |-> "turn_done", steps |-> agent_steps]
      ]_vars

\* a turn was cancelled on its second step: the tool messages of the first
\* step are the last of the list, and the session was saved
C15_Witness ==
    /\ pc = "idle"
    /\ cancel_requested
    /\ script.end_at = 0
    /\ result = [kind |-> "turn_done", steps |-> 2]
    /\ turn.provider_calls = 2
    /\ turn.saves = 1
    /\ messages[Len(messages)].role = "tool"
    /\ messages[Len(messages)].tool_call_id[1] = 1

\* C16: a cancel request raised while a tool call is being executed stops
\* neither the execution nor the appending of its tool message; the request
\* takes effect no earlier than the next iteration over a provider delta.
C16_CancelNeverInterruptsTool ==
    [][ /\ (pc = "running" /\ pc' # "running")
           => /\ DispatchStep
              /\ messages' = Append(messages,
                    ToolMsg(Head(todo).id, Head(todo).name, lastCall'.result))
              /\ (Approved(Head(todo).name)
                    /\ Head(todo).name \in available_functions)
                 => /\ lastCall'.attempts >= 1
                    /\ lastCall'.attempts =
                         IF script.fails + 1 <= MAX_TOOL_RETRIES
                         THEN script.fails + 1 ELSE MAX_TOOL_RETRIES
              /\ pc' = IF Tail(todo) # << >> THEN "tools" ELSE "loop"
        /\ (pc = "tools" /\ pc' # "tools") => pc' = "running"
        /\ (pc # "exit" /\ pc' = "exit") => (pc = "loop" /\ ProviderStep)
        /\ (pc \in {"tools", "running"}) =>
              /\ messages' \in {messages} \cup
                    {Append(messages, m) : m \in {messages'[Len(messages')]}}
              /\ turn'.provider_calls = turn.provider_calls
      ]_vars

\* the cancel flag was raised during the execution of a tool: the tool was
\* invoked all the same and its result is the tool message just appended
C16_Witness ==
    /\ pc \in {"tools", "loop"}
    /\ cancel_requested
    /\ ~lastCall.cancel_at_start
    /\ lastCall.cancel_at_end
    /\ lastCall.attempts >= 1
    /\ messages[Len(messages)].role = "tool"
    /\ messages[Len(messages)].name = lastCall.name
    /\ messages[Len(messages)].content = ToolOutput(lastCall.name)

\* C17: whatever listeners are registered, a listener that raises while it
\* handles an event keeps no listener registered after it from receiving the
\* event and does not abort the turn of the agent loop.
C17_ListenerIsolation ==
    /\ last_event.received = 1..last_event.audience
    /\ ~bus.aborted

Stat(s) == <<s.steps, s.tool_calls, s.tool_failures, s.prompt_tokens,
             s.completion_tokens, s.total_tokens, s.total_cost_usd>>

\* C18: on one runtime instance, over any sequence of operations and turns,
\* none of the counters steps, tool calls, tool failures, prompt tokens,
\* completion tokens, total tokens and cumulative cost ever decreases.
C18_CountersNeverDecrease ==
    [][ \A i \in 1..7 : Stat(stats')[i] >= Stat(stats)[i] ]_vars

\* C19: a tool that raises, an unregistered tool and a rejected approval
\* each give a tool message and the loop goes on; a turn ends before its
\* step ceiling only by a provider error, a cancellation or an answer
\* without tool calls, and however it ends the session is saved before
\* handle_input returns.
C19_SurvivesAndPersists ==
    [][ /\ DispatchStep =>
            LET tc == Head(todo)
            IN  /\ Len(messages') = Len(messages) + 1
                /\ messages'[Len(messages')].role = "tool"
                /\ messages'[Len(messages')].tool_call_id = tc.id
                /\ messages'[Len(messages')].content =
                     IF ~Approved(tc.name)
                     THEN IF approval_callback /\ ~auto_approve_risky
                          THEN RejectByUser ELSE RejectNoApprover
                     ELSE IF tc.name \notin available_functions
                     THEN ToolMissing(tc.name)
                     ELSE IF script.fails >= MAX_TOOL_RETRIES THEN RetryError
                     ELSE ToolOutput(tc.name)
                /\ pc' = IF Tail(todo) # << >> THEN "tools" ELSE "loop"
        /\ (pc # "exit" /\ pc' = "exit") =>
              /\ ProviderStep
              /\ \/ script.end_at = agent_steps'
                 \/ cancel_requested
        /\ ReturnStep =>
              /\ \/ pc = "exit"
                 \/ pc = "loop" /\ agent_steps = max_steps
              /\ turn'.saves = turn.saves + 1
              /\ messages' = messages
      ]_vars

\* in one turn a tool that kept raising was given up with an error text,
\* the provider was called again and answered, and the session was saved
C19_Witness ==
    /\ pc = "idle"
    /\ result = [kind |-> "turn_done", steps |-> 2]
    /\ turn.saves = 1
    /\ script.fails = MAX_TOOL_RETRIES
    /\ Len(messages) = 5
    /\ messages[4].role = "tool"
    /\ messages[4].content = RetryError
    /\ messages[5] = AssistantMsg("answer", << >>)

\* the position of the last assistant message of the list (0 when none)
LastAssistant ==
    IF \E j \in 1..Len(messages) : messages[j].role = "assistant"
    THEN CHOOSE j \in 1..Len(messages) :
            /\ messages[j].role = "assistant"
            /\ \A k \in (j + 1)..Len(messages) : messages[k].role # "assistant"
    ELSE 0

\* the first `done` calls of the last assistant message are answered, in
\* order, by the messages that follow it, and nothing else follows it
AnsweredInOrder(done) ==
    LET j == LastAssistant
        tcs == messages[j].tool_calls
    IN  /\ j > 0
        /\ Len(messages) = j + done
        /\ \A i \in 1..done :
              /\ messages[j + i].role = "tool"
              /\ messages[j + i].tool_call_id = tcs[i].id
              /\ messages[j + i].name = tcs[i].name
        /\ todo = SubSeq(tcs, done + 1, Len(tcs))

\* C20: the n tool calls of an assistant message are handled one at a time
\* in ascending index order, call i being approved and executed before call
\* i+1 is taken; exactly n tool messages follow the assistant message, the
\* i-th with the id and name of the i-th call, before the next provider call.
C20_OrderedDispatch ==
    [][ /\ (ProviderStep /\ pc' = "tools") =>
              /\ todo' = messages'[Len(messages')].tool_calls
              /\ todo' # << >>
        /\ (pc \in {"tools", "running"}) =>
              LET n == Len(messages[LastAssistant].tool_calls)
              IN  /\ AnsweredInOrder(n - Len(todo))
                  /\ todo # << >>
                  /\ ~ProviderStep
        /\ (pc = "tools" /\ pc' # "tools") =>
              pc' = "running" /\ todo' = todo /\ messages' = messages
        /\ (pc = "running" /\ pc' # "running") =>
              /\ todo' = Tail(todo)
              /\ lastCall'.name = Head(todo).name
              /\ pc' = IF Tail(todo) = << >> THEN "loop" ELSE "tools"
        /\ (ProviderStep /\ agent_steps >= 1) =>
              /\ todo = << >>
              /\ AnsweredInOrder(Len(messages[LastAssistant].tool_calls))
      ]_vars

\* an assistant message with two tool calls was followed by their two tool
\* messages in call order, and only then was the provider called again
C20_Witness ==
    /\ turn.provider_calls = 2
    /\ Len(messages) = 6
    /\ Len(messages[3].tool_calls) = 2
    /\ messages[4].role = "tool"
    /\ messages[4].tool_call_id = messages[3].tool_calls[1].id
    /\ messages[4].name = "delete_file"
    /\ messages[5].role = "tool"
    /\ messages[5].tool_call_id = messages[3].tool_calls[2].id
    /\ messages[5].name = "read_file"
    /\ messages[6].role = "assistant"

\* the tool calls the model can make for a name outside the registry, with
\* every behaviour of the approver and of the callables
UnknownCalls ==
    {<<[id |-> <<1, 1>>, name |-> n, arguments |-> a], auto, callback,
       Script(<<n>>, a, f, d, "plain", 2)>> :
        n \in (ToolNames \cup RunnerTools) \ available_functions,
        a \in ArgTexts, auto \in BOOLEAN, callback \in BOOLEAN,
        f \in {0, MAX_TOOL_RETRIES}, d \in {"approve", "reject", NoCallback}}

\* C21: for a tool name outside the registry the dispatch of the agent loop
\* invokes nothing, retries nothing and gives the fixed result "Error: Tool
\* <name> not found" as the content of the tool message; call_tool answers
\* status error "Tool not found" before any risk check, whatever dry_run,
\* confirm and approval_id are, and creates and consumes no ticket.
C21_UnknownTool ==
    /\ [](\A c \in UnknownCalls :
            LET d == Dispatch(c[1], c[2], c[3], c[4])
            IN  /\ d.should_run
                /\ d.attempts = 0
                /\ d.result = ToolMissing(c[1].name)
                /\ StartsWithError(d.result)
                /\ ToolMsg(c[1].id, c[1].name, d.result).content
                     = ToolMissing(c[1].name))
    /\ [][ \A h \in Handlers :
             (CallStep(h) /\ req'[h].tool \notin available_functions)
             => /\ req'[h].pc = "done"
                /\ req'[h].resp = ErrorResp(ErrToolNotFound)
                /\ req'[h].invoked = 0
                /\ req'[h].ticket = NoTicket
                /\ _items' = _items
                /\ nextId' = nextId
                /\ popped' = popped
                /\ execBy' = execBy
         ]_vars

\* a confirm call for an unregistered tool that carried the id of a live
\* ticket was answered "Tool not found", and the ticket is still in the store
C21_Witness ==
    \E h \in Handlers :
        LET r == req[h]
        IN  /\ r.pc = "done"
            /\ r.tool \notin available_functions
            /\ r.confirm /\ ~r.dry_run
            /\ r.approval_id \in DOMAIN _items
            /\ r.approval_id \notin popped
            /\ r.resp = ErrorResp(ErrToolNotFound)
            /\ r.invoked = 0

\* C22: at the provider call of every step of a turn, not only the first,
\* the message list sent has at most 2*max_history_rounds+1 messages, and its
\* first element is the system message.
C22_WindowBeforeEveryCall ==
    [][ ProviderStep =>
          /\ Len(messages) <= 2 * max_history_rounds + 1
          /\ messages[1] = SystemMsg
      ]_vars

\* text `old` is a prefix of text `new`
IsPrefix(old, new) ==
    Len(old) <= Len(new) /\ SubSeq(new, 1, Len(old)) = old

\* C23: during one stream, once the entry of an index has a non-empty id
\* (respectively name), no later fragment for that index changes it, and the
\* entry's argument text after each delta extends its text before the delta.
C23_SetOnceAppendOnly ==
    [][ \A i \in DOMAIN collected_tool_calls :
          /\ i \in DOMAIN collected_tool_calls'
          /\ collected_tool_calls[i].id # "" =>
                collected_tool_calls'[i].id = collected_tool_calls[i].id
          /\ collected_tool_calls[i].name # "" =>
                collected_tool_calls'[i].name = collected_tool_calls[i].name
          /\ IsPrefix(collected_tool_calls[i].arguments,
                      collected_tool_calls'[i].arguments)
      ]_vars

\* the provider call made in this step fails: creating or iterating the
\* stream raises
ProviderFails ==
    ProviderStep /\ script.end_at = agent_steps + 1 /\ script.ending = "error"

\* C24: when the provider call of step k raises, no assistant message is
\* appended for step k, no tool is dispatched, the failure is reported with a
\* system message, k calls have been made and no further one follows in the
\* turn, and handle_input returns its turn_done value.
C24_ProviderFailureEndsTurn ==
    [][ /\ ProviderFails =>
              /\ messages' = messages
              /\ todo' = << >>
              /\ turn'.invoked = turn.invoked
              /\ turn'.provider_calls = agent_steps'
              /\ ApiFailed \in turn'.notices
              /\ pc' = "exit"
        /\ (pc = "exit" /\ ApiFailed \in turn.notices /\ pc' # pc) =>
              /\ pc' = "idle"
              /\ messages' = messages
              /\ turn'.provider_calls = turn.provider_calls
              /\ turn'.invoked = turn.invoked
              /\ result' = [kind |-> "turn_done", steps |-> turn.provider_calls]
        /\ (ApiFailed \in turn.notices /\ pc # "idle") => ~ProviderStep
      ]_vars

\* the provider failed on the second step of a turn: the tool message of the
\* first step is the last of the list and handle_input returned steps = 2
C24_Witness ==
    /\ pc = "idle"
    /\ script.ending = "error"
    /\ script.end_at = 2
    /\ ApiFailed \in turn.notices
    /\ turn.provider_calls = 2
    /\ turn.saves = 1
    /\ result = [kind |-> "turn_done", steps |-> 2]
    /\ messages[Len(messages)].role = "tool"
    /\ messages[Len(messages)].tool_call_id[1] = 1

(***************************************************************************)
(* Properties of the event log (checked under SpecLog and SpecLogRace).    *)
(***************************************************************************)
\* runtime e starts, continues or ends an emit in this step
LogStep(e) ==
    log_pc'[e] # log_pc[e] \/ _log_write_count'[e] # _log_write_count[e]

\* C25: the size of the log file is looked at on every 200th write of a
\* runtime and on no other write; a check that finds the file above the
\* threshold renames it, and the event that triggered the check becomes the
\* only record of a fresh file; a failure of the size check, of the rename
\* or of the append is swallowed: the event still goes to the listeners.
C25_PeriodicFailureProofRotation ==
    /\ [](\A e \in Emitters :
            /\ log_history.checks[e] = _log_write_count[e] \div LOG_CHECK_EVERY
            /\ log_history.delivered[e] =
                 IF log_pc[e] = "idle" THEN _log_write_count[e]
                 ELSE _log_write_count[e] - 1)
    /\ [][ \A e \in Emitters :
            LogStep(e) =>
              /\ (log_pc[e] = "idle" /\ log_pc'[e] # "idle") =>
                    /\ _log_write_count'[e] % LOG_CHECK_EVERY = 0
                    /\ ~log_last'[e].raised =>
                          (log_pc'[e] = "rename" <=>
                              (log_file.records > 0 /\ log_file.big))
              /\ (log_pc[e] = "idle" /\ log_pc'[e] = "idle") =>
                    /\ _log_write_count'[e] % LOG_CHECK_EVERY # 0
                    /\ log_history'.checks = log_history.checks
                    /\ log_history'.rotations = log_history.rotations
              /\ (log_pc[e] = "rename" /\ ~log_last'[e].raised) =>
                    /\ log_file'.records = 0
                    /\ log_last'[e].rotated
                    /\ log_history'.rotations = log_history.rotations + 1
              /\ (log_pc[e] = "append" /\ log_last'[e].rotated
                    /\ log_last'[e].appended) =>
                    log_file' = LogFile(log_file.gen + 1, 1, FALSE)
              /\ log_pc'[e] = "idle" =>
                    /\ log_history'.delivered[e] =
                         log_history.delivered[e] + 1
                    /\ log_last'[e].raised =>
                         log_history'.delivered[e] = _log_write_count'[e]
         ]_vars

\* the first check of a runtime renamed the file and its event opened a
\* fresh one; on its second check a file operation raised, and the event
\* went to the listeners all the same
C25_Witness ==
    /\ log_pc[1] = "idle"
    /\ _log_write_count[1] = 2 * LOG_CHECK_EVERY
    /\ log_history.checks[1] = 2
    /\ log_history.rotations = 1
    /\ log_file.gen = 2
    /\ log_last[1].due
    /\ log_last[1].raised
    /\ ~log_last[1].appended
    /\ log_history.delivered[1] = 2 * LOG_CHECK_EVERY

\* C26: when several runtimes write the same event log, the check-size,
\* rename, append sequence of each runs under one mutual-exclusion lock: no
\* two of them are inside their sequences at once, no append or rename of
\* another runtime falls between the steps of a sequence, and the file is
\* not renamed twice for one crossing of the threshold.
C26_LogMutualExclusion ==
    /\ [](\A e1 \in Emitters, e2 \in Emitters :
            e1 # e2 => ~(log_pc[e1] # "idle" /\ log_pc[e2] # "idle"))
    /\ [][ \A e \in Emitters :
             (log_pc[e] # "idle" /\ ~LogStep(e)) => log_file' = log_file
         ]_vars
    /\ [](log_history.rotations <= log_history.crossings)

(***************************************************************************)
(* Properties of the usage estimate (checked under SpecUsage) and of the   *)
(* stream events (checked under SpecStream).                               *)
(***************************************************************************)
\* the usage the provider reported last in the chunks iterated; the empty
\* sequence when it reported none
RECURSIVE Reported(_)
Reported(ds) ==
    IF ds = << >> THEN << >>
    ELSE IF ds[Len(ds)].usage # << >> THEN ds[Len(ds)].usage
    ELSE Reported(SubSeq(ds, 1, Len(ds) - 1))

\* the characters of streamed content plus reasoning in the chunks iterated
RECURSIVE AnswerChars(_)
AnswerChars(ds) ==
    IF ds = << >> THEN 0
    ELSE Len(Head(ds).content) + Len(Head(ds).reasoning)
           + AnswerChars(Tail(ds))

\* est(c) of the claim: 0 for c <= 0 and max(1, c div 2) otherwise
Est(c) == CASE c <= 0 -> 0
            [] c \in {1, 2, 3} -> 1
            [] OTHER -> c \div 2

\* the characters of all message contents
PromptChars ==
    LET n == Len(messages)
        len == [i \in 1..n |-> Len(messages[i].content)]
        sum[i \in 0..n] == IF i = 0 THEN 0 ELSE sum[i - 1] + len[i]
    IN  sum[n]

\* C27: when the stream reported no usage (its total stays 0), the usage of
\* the step is prompt_tokens = est(characters of all message contents),
\* completion_tokens = est(characters of streamed content plus reasoning)
\* and total_tokens their sum, a function of these inputs alone; the total
\* recorded for the step is above zero whenever a message content or the
\* streamed output is non-empty.
C27_UsageFallback ==
    (/\ stream_pc \in {"returned", "recorded"}
     /\ \/ Reported(chunks) = << >>
        \/ Reported(chunks)[1].total_tokens = 0)
    => LET u == returned.usage
       IN  /\ u.prompt_tokens = Est(PromptChars)
           /\ u.completion_tokens = Est(AnswerChars(chunks))
           /\ u.total_tokens = u.prompt_tokens + u.completion_tokens
           /\ (PromptChars > 0 \/ AnswerChars(chunks) > 0) => u.total_tokens > 0
           /\ stream_pc = "recorded" =>
                 /\ stats.prompt_tokens = u.prompt_tokens
                 /\ stats.completion_tokens = u.completion_tokens
                 /\ stats.total_tokens = u.total_tokens
                 /\ stats.total_tokens > 0

\* a stream of one text character and a usage report whose total is 0, on
\* a session of two one-character messages: one prompt token and one
\* completion token were recorded
C27_Witness ==
    /\ stream_pc = "recorded"
    /\ PromptChars = 2
    /\ AnswerChars(chunks) = 1
    /\ Reported(chunks) = <<Usage(5, 0, 0)>>
    /\ returned.usage = Usage(1, 1, 2)
    /\ stats.total_tokens = 2

\* the positions of stream_events holding the event e
At(e) == {i \in 1..Len(stream_events) : stream_events[i] = e}

\* C28: the assistant.stream events of a step form start, token*, end: every
\* assistant.stream.token has an assistant.stream.start before it, there is
\* no second start and no end without a start, and once the step's stream
\* is over (returned, cancelled or raised) every assistant.stream.start has
\* an assistant.stream.end after it.
C28_WellBracketedStream ==
    /\ \A i \in At("assistant.stream.token") :
          \E j \in At("assistant.stream.start") : j < i
    /\ \A i \in At("assistant.stream.end") :
          \E j \in At("assistant.stream.start") : j < i
    /\ Cardinality(At("assistant.stream.start")) <= 1
    /\ stream_pc \in {"returned", "raised"} =>
          \A i \in At("assistant.stream.start") :
             \E j \in At("assistant.stream.end") : i < j

(***************************************************************************)
(* Properties of the cancel flag (checked under SpecCancel).                *)
(***************************************************************************)
\* the flag goes from set to clear
Cleared == cancel_requested /\ ~cancel_requested'

\* a delta of the provider's stream is consumed
DeltaConsumed == Len(chunks') > Len(chunks)

\* C29: the flag is cleared only by handle_input's one clear per turn, which
\* runs after the user message is recorded and before the first provider
\* call; whatever was requested before it is gone after it and cancels
\* nothing (a turn is cancelled only while the flag is set, and it is clear
\* when the loop starts); a request made after it stays set, no delta is
\* consumed while it is set, and the iteration that finds it ends the turn
\* as cancelled without an assistant message.
C29_CancelFlagLifetime ==
    /\ [](pc \notin {"idle", "setup"} => Len(turn.cleared) = 1)
    /\ [](pc = "setup" =>
             /\ turn.cleared = << >>
             /\ turn.provider_calls = 0
             /\ messages[Len(messages)] = UserMsg("text"))
    /\ [][Cleared => pc = "setup" /\ pc' = "loop" /\ messages' = messages]_vars
    /\ [][pc = "setup" /\ pc' # "setup" =>
             /\ pc' = "loop"
             /\ ~cancel_requested'
             /\ turn'.provider_calls = 0
             /\ turn'.notices = {}]_vars
    /\ [](GenerationCancelled \in turn.notices => cancel_requested)
    /\ [][cancel_requested /\ pc # "setup" => cancel_requested']_vars
    /\ [][cancel_requested => ~DeltaConsumed]_vars
    /\ [][(/\ pc = "stream"
           /\ stream_pc = "iterating"
           /\ cancel_requested
           /\ stream_pc' = "returned"
           /\ returned'.canceled)
          => /\ returned'.result_msg =
                   ResultMsg(collected_content, collected_tool_calls)
             /\ chunks' = chunks]_vars
    /\ [][(pc = "stream" /\ stream_pc = "returned" /\ returned.canceled
             /\ pc' # pc)
          => /\ pc' = "exit"
             /\ messages' = messages
             /\ GenerationCancelled \in turn'.notices
             /\ cancel_requested']_vars

\* a turn that began with the flag set (requested while idle or during the
\* setup): the clear found and dropped it, the first provider call ran to
\* its tool call, and a request made afterwards cancelled the second call
C29_Witness ==
    /\ pc = "idle"
    /\ turn.cleared = <<TRUE>>
    /\ turn.provider_calls = 2
    /\ turn.notices = {GenerationCancelled}
    /\ cancel_requested
    /\ messages[Len(messages)].role = "tool"

(***************************************************************************)
(* Properties of POST /chat/stream (checked under SpecChat).               *)
(***************************************************************************)
\* the tool messages that follow the assistant message at position i
RECURSIVE ToolRun(_, _)
ToolRun(msgs, i) ==
    IF i + 1 > Len(msgs) \/ msgs[i + 1].role # "tool" THEN << >>
    ELSE <<msgs[i + 1].tool_call_id>> \o ToolRun(msgs, i + 1)

\* every assistant message is followed by one tool message per tool call,
\* with the calls' ids in their order
OneAnswerEach(msgs) ==
    \A i \in 1..Len(msgs) :
       msgs[i].role = "assistant" =>
          ToolRun(msgs, i) =
             [k \in 1..Len(msgs[i].tool_calls) |-> msgs[i].tool_calls[k].id]

\* the generator handles the next tool call of the list
ChatCallStep ==
    generate.pc = "tools" /\ Len(generate'.todo) < Len(generate.todo)

\* C30: with auto_approve false no tool call of a risky name is executed:
\* the generator yields approval_required for it and appends a tool message
\* with the call's id and the placeholder text; between steps every tool
\* call of every assistant message of the session has exactly one tool
\* message; after the last call of a step the loop is back at its head;
\* a request makes at most 15 provider calls.
C30_ChatStreamGating ==
    /\ [](~generate.auto_approve =>
             \A id \in sse.tool_start \cup sse.tool_result :
                ~is_risky(generate.script.batch[id[3]]))
    /\ [][(ChatCallStep /\ ~generate.auto_approve
             /\ is_risky(Head(generate.todo).name))
          => LET tc == Head(generate.todo)
             IN  /\ sse'.approval_required = sse.approval_required \cup {tc.id}
                 /\ tc.id \notin sse.approval_required
                 /\ sse'.tool_start = sse.tool_start
                 /\ sse'.tool_result = sse.tool_result
                 /\ session_messages' =
                        Append(session_messages,
                               ToolMsg(tc.id, tc.name, NeedsApproval(tc.name)))]_vars
    /\ [][ChatCallStep =>
             /\ Len(session_messages') = Len(session_messages) + 1
             /\ generate'.pc = IF Len(generate.todo) = 1 THEN "loop"
                               ELSE "tools"
             /\ generate'.step = generate.step]_vars
    /\ [](generate.pc \in {"idle", "loop"} => OneAnswerEach(session_messages))
    /\ [](generate.step <= CHAT_MAX_STEPS /\ sse.provider_calls = generate.step)
    /\ [][generate.pc = "loop" /\ generate'.pc = "idle"
             /\ sse'.provider_calls = sse.provider_calls
          => sse.provider_calls = CHAT_MAX_STEPS]_vars

\* a request without auto-approval asked for delete_file and read_file at
\* each of 15 steps: read_file ran 15 times, delete_file never, 15 approvals
\* were asked for, and the request ended at the step limit
C30_Witness ==
    /\ generate.pc = "idle"
    /\ ~generate.auto_approve
    /\ generate.script.batch = <<"delete_file", "read_file">>
    /\ sse.provider_calls = CHAT_MAX_STEPS
    /\ Cardinality(sse.approval_required) = CHAT_MAX_STEPS
    /\ Cardinality(sse.tool_start) = CHAT_MAX_STEPS
    /\ "Reached max agent steps" \in sse.error
    /\ Len(session_messages) = 2 + 3 * CHAT_MAX_STEPS

====
